---- MODULE Spec2Model ----
(***************************************************************************)
(* Topology reviser of the AMES (src/AMES.py, src/SnapEdges2Grid.py).      *)
(*                                                                         *)
(* Conventions.                                                            *)
(*  - Coordinates are pairs <<x, y>> in units of 1e-4 degree (the          *)
(*    ingestion layer rounds to four decimals), so that the three radii    *)
(*    are compared on squared integer distances.                           *)
(*  - A column of the point table is named by its refinement string (the   *)
(*    source uses the index of that string in self.refinements).           *)
(*  - Values stored in ptsRow (resource indices) are 0-based as in the     *)
(*    source; positions in sequences are 1-based, so the source's          *)
(*    position p is position p+1 here and self.lines[t] is lines[t+1].     *)
(*  - After clustering a coordinate is the centroid <<sx, sy, n>> standing *)
(*    for (sx/n, sy/n); before clustering n = 1.                           *)
(***************************************************************************)
EXTENDS Integers, Sequences, FiniteSets, TLC

VARIABLES
    pc,              \* position of reviseAMES
    lines,           \* self.lines
    nodes,           \* self.nodes
    ptsRow,          \* ptsX.row, from reviseCoords on: resourceIdx
    ptsCol,          \* ptsX.col
    ptsXY,           \* ptsX.data and ptsY.data
    clusters,        \* clusters
    clustCenters,    \* clustCenters
    pts,             \* pts (midpoint of every point-row)
    refinements,     \* self.refinements
    resourcesToAdd,  \* resourcesToAdd
    k1,              \* sweep index of joinLineSegs
    joined,          \* joined counter of joinLineSegs
    clusterPrimary,  \* clusterPrimary of setPipeODNames2 (cluster id -> node name)
    radial,          \* clusterRadialCenter of setPipeODNames2
    hist,            \* snapshots of earlier stages, read by the properties only
    regions,         \* self.regions and self.controlAreas
    controllers      \* self.controllers

vars == <<pc, lines, nodes, ptsRow, ptsCol, ptsXY, clusters, clustCenters, pts,
          refinements, resourcesToAdd, k1, joined, clusterPrimary, radial, hist, regions, controllers>>

-----------------------------------------------------------------------------
(* Bounds of the explored inputs *)
MaxEntities == 3
NumNodeSites == 1
MaxLines == MaxEntities
MaxNodes == MaxEntities - 1
NumSites == MaxLines + 1

(* Program constants *)
None == -1
eps1sq == 209
eps2sq == 20923
eps3sq == 25755625
\* 0.5075 * 4, the radius of reviseOil
eps4 == 20300

ELEC == "electric power at 132kV"
PGAS == "processed gas"
SYNGAS == "syngas"
RGAS == "raw gas"
POIL == "processed oil"
COIL == "crude oil"
LBIO == "liquid biomass feedstock"
SBIO == "solid biomass feedstock"
WATER == "water energy"
COAL == "coal"
URANIUM == "uranium"
SOLAR == "solar"
OTHERREF == "other"

-----------------------------------------------------------------------------
(* Sequence helpers *)
Range(s) == { s[i] : i \in DOMAIN s }

Min(S) == CHOOSE x \in S : \A y \in S : x <= y
Max(S) == CHOOSE x \in S : \A y \in S : x >= y

RECURSIVE SortedSeq(_)
SortedSeq(S) == IF S = {} THEN <<>> ELSE <<Min(S)>> \o SortedSeq(S \ {Min(S)})

\* np.where(cond)[0]: the positions satisfying P, ascending
Where(s, P(_)) == SortedSeq({ i \in DOMAIN s : P(i) })

\* np.delete(s, positions)
Delete(s, P) ==
    LET keep == SortedSeq(DOMAIN s \ P)
    IN  [ i \in 1..Len(keep) |-> s[keep[i]] ]

\* np.insert(s, p, t): t is inserted before position p
Insert(s, p, t) == SubSeq(s, 1, p - 1) \o t \o SubSeq(s, p, Len(s))

\* s[i] = v
SetAt(s, i, v) == [ j \in DOMAIN s |-> IF j = i THEN v ELSE s[j] ]

\* s[p:] = s[p:] + d
ShiftFrom(s, p, d) == [ i \in DOMAIN s |-> IF i >= p THEN s[i] + d ELSE s[i] ]

\* pd.unique / list order-preserving de-duplication
RECURSIVE Unique(_)
Unique(s) ==
    IF s = <<>> THEN <<>>
    ELSE LET r == Unique(SubSeq(s, 1, Len(s) - 1))
         IN  IF s[Len(s)] \in Range(r) THEN r ELSE Append(r, s[Len(s)])

Flip(s) == [ i \in DOMAIN s |-> s[Len(s) + 1 - i] ]

Dist2(a, b) == (a[1] - b[1]) * (a[1] - b[1]) + (a[2] - b[2]) * (a[2] - b[2])

\* np.argmin: the first position of idx whose element has the least d
ArgMin(idx, d(_)) ==
    CHOOSE i \in DOMAIN idx :
        /\ \A j \in DOMAIN idx : d(idx[i]) <= d(idx[j])
        /\ \A j \in 1..(i - 1) : d(idx[j]) > d(idx[i])

-----------------------------------------------------------------------------
(* Ingestion: the records the subsystem grids hand over                     *)

\* ElectricGrid.instantiate_electricLine, NGGrid.instantiate_NGPipe,
\* OilGrid.instantiate_OilCrudePipe: type tag and carried refinements, in the
\* order pull_all_lines stacks them
LineKinds ==
    << [type |-> "ElecLine", name |-> "Transmission Line", refinement |-> <<ELEC>>],
       [type |-> "NGPipe", name |-> "NG Pipeline", refinement |-> <<PGAS, SYNGAS, RGAS>>],
       [type |-> "OilCrudePipe", name |-> "Crude Pipeline", refinement |-> <<SOLAR>>],
       [type |-> "OilCrudePipe", name |-> "Crude Pipeline", refinement |-> <<COIL>>],
       [type |-> "OilCrudePipe", name |-> "Crude Pipeline", refinement |-> <<POIL>>] >>

\* the buffers of the grids in the order pull_all_nodes stacks them
NodeKinds ==
    << [sys |-> "elec", nodeType |-> "GenC", refinement |-> <<ELEC, PGAS>>, fuelType |-> <<PGAS>>],
       [sys |-> "elec", nodeType |-> "LoadC", refinement |-> <<ELEC>>, fuelType |-> <<>>],
       [sys |-> "ng", nodeType |-> "compressor", refinement |-> <<PGAS, SYNGAS, RGAS>>, fuelType |-> <<>>],
       [sys |-> "ng", nodeType |-> "terminal", refinement |-> <<PGAS, SYNGAS>>, fuelType |-> <<>>],
       [sys |-> "ng", nodeType |-> "NGProcessor", refinement |-> <<RGAS, PGAS>>, fuelType |-> <<>>],
       [sys |-> "oil", nodeType |-> "OilTerminal", refinement |-> <<POIL, COIL, LBIO, PGAS>>, fuelType |-> <<>>],
       [sys |-> "oil", nodeType |-> "OilRefinery", refinement |-> <<POIL, COIL>>, fuelType |-> <<>>],
       [sys |-> "elec", nodeType |-> "GenC", refinement |-> <<ELEC, WATER>>, fuelType |-> <<WATER>>],
       [sys |-> "elec", nodeType |-> "StoreC", refinement |-> <<ELEC, WATER>>, fuelType |-> <<WATER>>],
       [sys |-> "elec", nodeType |-> "GenS", refinement |-> <<ELEC, SOLAR>>, fuelType |-> <<SOLAR>>],
       [sys |-> "elec", nodeType |-> "GenC", refinement |-> <<ELEC, POIL>>, fuelType |-> <<POIL>>] >>

\* index of refinement r in the list refs (list.index)
ColIdx(refs, r) == CHOOSE i \in DOMAIN refs : refs[i] = r

\* sites 1..NumSites stand 0.7 apart; site NumSites + 1 lies 0.002 before
\* and site NumSites + 2 lies 0.002 after site 1
SiteXY(s) ==
    IF s <= NumSites THEN <<7000 * s, 1000>>
    ELSE <<7000 + 20 * (2 * (s - NumSites) - 3), 1000>>
Offsets == { <<0, 0>>, <<60, 80>>, <<1800, 2400>> }
NodeXY == { <<SiteXY(s)[1] + o[1], SiteXY(s)[2] + o[2]>> : s \in 1..NumNodeSites, o \in Offsets }

\* the explored power and gas inputs: the first three kinds of transporter and
\* the first five kinds of buffer
LineRecs == [ kind : { k \in DOMAIN LineKinds : LineKinds[k].refinement[1] \notin {COIL, POIL} },
              o : 1..NumSites, d : 1..NumSites ]
\* the STUSPS and ISO attributes of a shape record; NoAttr: the shape file has
\* no such column (the attribute is never set), NoLabel: the attribute is None
NoAttr == "no attribute"
NoLabel == "None"
NodeRecs == [ kind : { k \in DOMAIN NodeKinds :
                          /\ NodeKinds[k].sys # "oil"
                          /\ Range(NodeKinds[k].refinement) \cap {WATER, SOLAR, POIL} = {} },
              xy : NodeXY,
              state : {NoAttr}, iso : {NoAttr} ]

SitesOf(ls) == { ls[i].o : i \in DOMAIN ls } \cup { ls[i].d : i \in DOMAIN ls }
MaxSite(ls) == IF ls = <<>> THEN 0 ELSE Max(SitesOf(ls))

\* line lists sorted by subsystem, sites numbered in order of first use
RECURSIVE LineInputs(_)
LineInputs(n) ==
    IF n = 0 THEN { <<>> }
    ELSE LET prev == { p \in LineInputs(n - 1) : Len(p) = n - 1 }
             ok(p, l) ==
                 /\ (p # <<>> => p[Len(p)].kind <= l.kind)
                 /\ l.o <= MaxSite(p) + 1
                 /\ l.d <= (IF l.o > MaxSite(p) THEN l.o ELSE MaxSite(p)) + 1
         IN  LineInputs(n - 1) \cup
             { Append(x[1], x[2]) : x \in { y \in prev \X LineRecs : ok(y[1], y[2]) } }

\* buffer lists sorted by subsystem and kind; a grid keeps one buffer per
\* coordinate (buffer_map)
RECURSIVE NodeInputs(_)
NodeInputs(n) ==
    IF n = 0 THEN { <<>> }
    ELSE LET prev == { p \in NodeInputs(n - 1) : Len(p) = n - 1 }
             ok(p, b) ==
                 /\ (p # <<>> => p[Len(p)].kind <= b.kind)
                 /\ \A i \in DOMAIN p :
                        NodeKinds[p[i].kind].sys = NodeKinds[b.kind].sys => p[i].xy # b.xy
         IN  NodeInputs(n - 1) \cup
             { Append(x[1], x[2]) : x \in { y \in prev \X NodeRecs : ok(y[1], y[2]) } }

Inputs ==
    { x \in LineInputs(MaxLines) \X NodeInputs(MaxNodes) :
          Len(x[1]) + Len(x[2]) <= MaxEntities }

MkLine(ls, i) ==
    [ lineName |-> <<LineKinds[ls[i].kind].name,
                     Cardinality({ j \in 1..i : LineKinds[ls[j].kind].name = LineKinds[ls[i].kind].name })>>,
      type |-> LineKinds[ls[i].kind].type,
      refinement |-> LineKinds[ls[i].kind].refinement,
      fBus |-> [isName |-> FALSE, gps |-> SiteXY(ls[i].o)],
      tBus |-> [isName |-> FALSE, gps |-> SiteXY(ls[i].d)],
      attrib_origin |-> <<>>,
      attrib_dest |-> <<>>,
      controller |-> <<>>,
      clust_origin |-> None,
      clust_dest |-> None ]

MkNode(ns, i) ==
    [ nodeName |-> <<NodeKinds[ns[i].kind].nodeType,
                     Cardinality({ j \in 1..i : NodeKinds[ns[j].kind].nodeType = NodeKinds[ns[i].kind].nodeType })>>,
      nodeType |-> NodeKinds[ns[i].kind].nodeType,
      refinement |-> NodeKinds[ns[i].kind].refinement,
      fuelType |-> NodeKinds[ns[i].kind].fuelType,
      cap |-> [ k \in DOMAIN NodeKinds[ns[i].kind].fuelType |-> 1 ],
      attrib_ref |-> {},
      controller |-> <<>>,
      state |-> ns[i].state,
      iso |-> IF NodeKinds[ns[i].kind].sys = "elec" THEN ns[i].iso ELSE NoAttr,
      gps |-> ns[i].xy,
      cluster |-> <<>> ]

\* Sequential loop over seq: acc = op(acc, element)
RECURSIVE Fold(_, _, _)
Fold(op(_, _), acc, seq) ==
    IF seq = <<>> THEN acc ELSE Fold(op, op(acc, Head(seq)), Tail(seq))

RECURSIVE Concat(_)
Concat(ss) == IF ss = <<>> THEN <<>> ELSE Head(ss) \o Concat(Tail(ss))

-----------------------------------------------------------------------------
(* get_all_pointsRef and the vstack of snapEdges2GridRef                *)

\* self.refinements: each grid's list appended in the order elec, NG, oil;
\* the electric grid lists the fuel of its generators after electric power
get_refinements(ns) ==
    Unique(<<ELEC>>
           \o Concat([ i \in DOMAIN ns |-> IF NodeKinds[ns[i].kind].sys = "elec"
                                            THEN NodeKinds[ns[i].kind].fuelType ELSE <<>> ])
           \o <<ELEC, RGAS, PGAS, SYNGAS>>
           \o <<POIL, COIL, LBIO, PGAS>>
           \o <<SOLAR>>)

\* the entries of one endpoint row: get_all_endpointsRef writes refinement[0] only
EndpointEntries(refs, ls, r) ==
    LET l == ls[(r \div 2) + 1]
    IN  << [row |-> r, col |-> ColIdx(refs, l.refinement[1]),
            xy |-> IF r % 2 = 0 THEN l.fBus.gps ELSE l.tBus.gps] >>

\* the entries of one buffer row: one per served refinement, by ascending column
BufferEntries(refs, ns, nL, j) ==
    LET cols == SortedSeq({ ColIdx(refs, ns[j].refinement[i]) : i \in DOMAIN ns[j].refinement })
    IN  [ i \in DOMAIN cols |-> [row |-> 2 * nL + j - 1, col |-> cols[i], xy |-> ns[j].gps] ]

get_all_pointsRef(refs, ls, ns) ==
    Concat([ r \in 1..(2 * Len(ls)) |-> EndpointEntries(refs, ls, r - 1) ])
    \o Concat([ j \in 1..Len(ns) |-> BufferEntries(refs, ns, Len(ls), j) ])

NoHist == [ lines |-> <<>>, nodes |-> <<>>, row |-> <<>>, clusters |-> <<>> ]

\* self.regions is the empty frame of the constructor
NoRegions == [ states |-> <<>>, isos |-> <<>> ]

\* the state after construction and ingestion of the input x with region files regs
Start(x, regs) ==
      \E ls \in { [ i \in DOMAIN x[1] |-> MkLine(x[1], i) ] } :
      \E ns \in { [ j \in DOMAIN x[2] |-> MkNode(x[2], j) ] } :
      \E refs \in { get_refinements(x[2]) } :
      \E tab \in { get_all_pointsRef(refs, ls, ns) } :
            /\ pc = "snapEdges2GridRef"
            /\ lines = ls
            /\ nodes = ns
            /\ refinements = refs
            /\ ptsRow = [ i \in DOMAIN tab |-> tab[i].row ]
            /\ ptsCol = [ i \in DOMAIN tab |-> tab[i].col ]
            /\ ptsXY = [ i \in DOMAIN tab |-> <<tab[i].xy[1], tab[i].xy[2], 1>> ]
            /\ clusters = <<>>
            /\ clustCenters = <<>>
            /\ pts = <<>>
            /\ resourcesToAdd = <<>>
            /\ k1 = 0
            /\ joined = 0
            /\ clusterPrimary = <<>>
            /\ radial = <<>>
            /\ hist = NoHist
            /\ regions = regs
            /\ controllers = <<>>

Init == \E x \in Inputs : Start(x, NoRegions)

-----------------------------------------------------------------------------
(* snapEdges2GridRef                                                    *)

\* body of the loop over one endpoint entry k2 (primary pass);
\* s = [cl: clusters, clust: next cluster id, add: resourcesToAdd]
PrimaryPoint(col, xy, s, k2) ==
    LET refIdx == Where(col, LAMBDA i : col[i] = col[k2])
        foundIDX == SelectSeq(refIdx, LAMBDA i : Dist2(xy[k2], xy[i]) <= eps1sq)
        clustered == SelectSeq(foundIDX, LAMBDA i : s.cl[i] # None)
    IN  IF clustered # <<>>
        THEN LET closest_clust == ArgMin(clustered, LAMBDA i : Dist2(xy[k2], xy[i]))
                 extended_clust == s.cl[clustered[closest_clust]]
             IN  [ s EXCEPT !.cl = [ i \in DOMAIN s.cl |->
                       IF i \in Range(foundIDX) /\ s.cl[i] = None THEN extended_clust ELSE s.cl[i] ] ]
        ELSE [ s EXCEPT !.cl = [ i \in DOMAIN s.cl |->
                       IF i \in Range(foundIDX) THEN s.clust ELSE s.cl[i] ],
                        !.clust = s.clust + 1 ]

\* body of the loop over one endpoint row r (primary pass); nOD entries are endpoints
PrimaryRow(row, col, xy, nOD, s, r) ==
    LET lineIdx == SortedSeq({ i \in 1..nOD : row[i] = r })
    IN  IF \E i \in Range(lineIdx) : s.cl[i] # None
        THEN s
        ELSE Fold(LAMBDA a, k2 : PrimaryPoint(col, xy, a, k2), s, lineIdx)

\* SecondaryPoint with a single radius: every isolated entry within eps3 of an
\* endpoint of its column takes that endpoint's cluster and nothing is queued
SecondaryPoint_OneRadius(col, xy, nOD, s, k2) ==
    LET refIdx == SortedSeq({ i \in 1..nOD : col[i] = col[k2] })
    IN  IF ~ (\E i \in Range(refIdx) : i - 1 # 0)
        THEN s
        ELSE LET nearest == ArgMin(refIdx, LAMBDA i : Dist2(xy[k2], xy[i]))
                 nearestIDX == refIdx[nearest]
                 d == Dist2(xy[k2], xy[nearestIDX])
             IN  IF d <= eps3sq
                 THEN [ s EXCEPT !.cl = SetAt(s.cl, k2, s.cl[nearestIDX]) ]
                 ELSE s

\* body of the loop over one isolated entry k2 (secondary pass)
SecondaryPoint(col, xy, nOD, s, k2) ==
    LET refIdx == SortedSeq({ i \in 1..nOD : col[i] = col[k2] })
    IN  IF ~ (\E i \in Range(refIdx) : i - 1 # 0)
        THEN s
        ELSE LET nearest == ArgMin(refIdx, LAMBDA i : Dist2(xy[k2], xy[i]))
                 nearestIDX == refIdx[nearest]
                 d == Dist2(xy[k2], xy[nearestIDX])
             IN  IF d <= eps2sq
                 THEN [ s EXCEPT !.cl = SetAt(s.cl, k2, s.cl[nearestIDX]) ]
                 ELSE IF d <= eps3sq
                 THEN [ s EXCEPT !.cl = SetAt(s.cl, k2, s.clust), !.clust = s.clust + 1,
                                 !.add = Append(s.add, <<k2, nearestIDX>>) ]
                 ELSE s

\* the clustering of snapEdges2GridRef; the pairs of add hold positions
AssignClusters(row, col, xy, nOD) ==
    LET s0 == [ cl |-> [ i \in DOMAIN row |-> None ], clust |-> 0, add |-> <<>> ]
        s1 == Fold(LAMBDA a, r : PrimaryRow(row, col, xy, nOD, a, r), s0,
                   [ i \in 1..nOD |-> i - 1 ])
        isoNodes == Where(s1.cl, LAMBDA i : s1.cl[i] = None)
    IN  Fold(LAMBDA a, k2 : SecondaryPoint(col, xy, nOD, a, k2), s1, isoNodes)

Sum(f, S) == Fold(LAMBDA a, i : a + f[i], 0, SortedSeq(S))

\* centroid of cluster c as <<sum x, sum y, members>>
Centroid(xy, cl, c) ==
    LET m == { i \in DOMAIN cl : cl[i] = c }
    IN  << Sum([ i \in DOMAIN xy |-> xy[i][1] ], m), Sum([ i \in DOMAIN xy |-> xy[i][2] ], m),
           Cardinality(m) >>

getClustMidpointsRef(xy, cl) ==
    LET clusts == SortedSeq(Range(cl) \ {None})
    IN  [ clustCenter |-> [ k \in DOMAIN clusts |-> Centroid(xy, cl, clusts[k]) ],
          midpoint |-> [ i \in DOMAIN cl |-> IF cl[i] = None THEN <<0, 0, 1>> ELSE Centroid(xy, cl, cl[i]) ],
          xy |-> [ i \in DOMAIN cl |-> IF cl[i] = None THEN xy[i] ELSE Centroid(xy, cl, cl[i]) ] ]

snapEdges2GridRef ==
    /\ pc = "snapEdges2GridRef"
    /\ \E s \in { AssignClusters(ptsRow, ptsCol, ptsXY, 2 * Len(lines)) } :
       \E m \in { getClustMidpointsRef(ptsXY, s.cl) } :
           /\ clusters' = s.cl
           /\ resourcesToAdd' = s.add
           /\ clustCenters' = m.clustCenter
           /\ pts' = m.midpoint
           /\ ptsXY' = m.xy
    /\ pc' = "updateTransporters"
    /\ UNCHANGED <<lines, nodes, ptsRow, ptsCol, refinements, k1, joined, clusterPrimary, radial, hist, regions, controllers>>

-----------------------------------------------------------------------------
(* Lines are objects: two positions of self.lines may hold the same object, *)
(* named here by lineName; a write through one position shows in both.      *)
SetLine(ls, i, new) == [ j \in DOMAIN ls |-> IF ls[j].lineName = ls[i].lineName THEN new ELSE ls[j] ]

-----------------------------------------------------------------------------
(* updateTransporters                                                   *)

\* the class and type tag chosen by the refinement of the source point
SynthKind(ref) ==
    IF ref = ELEC THEN [known |-> TRUE, prefix |-> "Transmission Line", cls |-> "ElecLine", type |-> "ElecLine"]
    ELSE IF ref \in {PGAS, SYNGAS, RGAS} THEN [known |-> TRUE, prefix |-> "NG Pipeline", cls |-> "NGPipe", type |-> "NGPipe"]
    ELSE IF ref = POIL THEN [known |-> TRUE, prefix |-> "OilR Pipeline", cls |-> "OilRefPipe", type |-> "oilRPipe"]
    ELSE IF ref \in {COIL, LBIO, WATER} THEN [known |-> TRUE, prefix |-> "OilC Pipeline", cls |-> "OilCrudePipe", type |-> "oilCrudePipe"]
    ELSE IF ref = COAL THEN [known |-> TRUE, prefix |-> "coal railroad", cls |-> "CoalRailroad", type |-> "railroad"]
    ELSE IF ref \in {OTHERREF, SBIO, URANIUM} THEN [known |-> TRUE, prefix |-> "Other Pipeline", cls |-> "", type |-> "otherPipe"]
    ELSE [known |-> FALSE, prefix |-> "", cls |-> "", type |-> ""]

\* body of the loop over queue entry e = <<k2, nearestIDX>>;
\* a = [new: lines built so far, inst: new_instance, crash]
SynthLine(refs, ls, col, xy, cl, a, e) ==
    LET ref == refs[col[e[2]]]
        kind == SynthKind(ref)
        \* len(<class list of the grid>) + <counter of the class>
        n == Cardinality({ i \in DOMAIN ls : ls[i].type = kind.cls })
             + Cardinality({ a.new[i].lineName : i \in { j \in DOMAIN a.new : a.new[j].lineName[1] = kind.prefix } }) + 1
        fresh == [ lineName |-> <<kind.prefix, n>>, type |-> kind.type, refinement |-> <<ref>>,
                   fBus |-> [isName |-> FALSE, gps |-> xy[e[2]]],
                   tBus |-> [isName |-> FALSE, gps |-> xy[e[1]]],
                   attrib_origin |-> xy[e[2]], attrib_dest |-> xy[e[1]], controller |-> <<>>,
                   clust_origin |-> cl[e[2]], clust_dest |-> cl[e[1]] ]
    IN  IF a.crash THEN a
        ELSE IF kind.known THEN [ a EXCEPT !.new = Append(a.new, fresh), !.inst = fresh ]
        ELSE IF a.new = <<>> THEN [ a EXCEPT !.crash = TRUE ]
        ELSE LET stale == [ a.inst EXCEPT !.fBus = fresh.fBus, !.tBus = fresh.tBus,
                                          !.attrib_origin = fresh.attrib_origin,
                                          !.attrib_dest = fresh.attrib_dest,
                                          !.clust_origin = fresh.clust_origin,
                                          !.clust_dest = fresh.clust_dest ]
             IN  [ a EXCEPT !.new = Append(SetLine(a.new, Len(a.new), stale), stale), !.inst = stale ]

\* the rows spliced into the point table for queue entry i (1-based)
SynthRows(nL, col, xy, cl, add, i) ==
    << [row |-> (i - 1) * 2 + nL * 2, col |-> col[add[i][2]], xy |-> xy[add[i][2]], cl |-> cl[add[i][2]]],
       [row |-> (i - 1) * 2 + 1 + nL * 2, col |-> col[add[i][2]], xy |-> xy[add[i][1]], cl |-> cl[add[i][1]]] >>

updateTransportersRes(refs, ls, row, col, xy, cl, mid, add) ==
    LET a == Fold(LAMBDA acc, e : SynthLine(refs, ls, col, xy, cl, acc, e),
                  [new |-> <<>>, inst |-> <<>>, crash |-> FALSE], add)
        count == Len(add)
        ins == Concat([ i \in DOMAIN add |-> SynthRows(Len(ls), col, xy, cl, add, i) ])
        first == { i \in DOMAIN row : row[i] = Len(ls) * 2 }
        linePoints == Min(first)
        shifted == ShiftFrom(row, linePoints, Len(ins))
    IN  IF a.crash \/ (Len(ls) > 0 /\ count > 0 /\ first = {})
        THEN [crash |-> TRUE]
        ELSE IF Len(ls) > 0 /\ count > 0
        THEN [ crash |-> FALSE, lines |-> ls \o a.new,
               row |-> Insert(shifted, linePoints, [ i \in DOMAIN ins |-> ins[i].row ]),
               col |-> Insert(col, linePoints, [ i \in DOMAIN ins |-> ins[i].col ]),
               xy |-> Insert(xy, linePoints, [ i \in DOMAIN ins |-> ins[i].xy ]),
               cl |-> Insert(cl, linePoints, [ i \in DOMAIN ins |-> ins[i].cl ]),
               mid |-> Insert(mid, linePoints, [ i \in DOMAIN ins |-> ins[i].xy ]) ]
        ELSE [ crash |-> FALSE, lines |-> ls \o a.new, row |-> row, col |-> col, xy |-> xy,
               cl |-> cl, mid |-> mid ]

updateTransporters ==
    /\ pc = "updateTransporters"
    /\ \E r \in { updateTransportersRes(refinements, lines, ptsRow, ptsCol, ptsXY, clusters, pts,
                                        resourcesToAdd) } :
         IF r.crash
         THEN /\ pc' = "crashed"
              /\ UNCHANGED <<lines, ptsRow, ptsCol, ptsXY, clusters, pts>>
         ELSE /\ pc' = "deleteIsoNodes"
              /\ lines' = r.lines
              /\ ptsRow' = r.row
              /\ ptsCol' = r.col
              /\ ptsXY' = r.xy
              /\ clusters' = r.cl
              /\ pts' = r.mid
    /\ UNCHANGED <<nodes, clustCenters, refinements, resourcesToAdd, k1, joined, clusterPrimary,
                   radial, hist, regions, controllers>>

-----------------------------------------------------------------------------
(* deleteIsoNodes                                                       *)

\* np.delete of position k2 in every array of the table t
DeleteRow(t, P) ==
    [ t EXCEPT !.row = Delete(t.row, P), !.col = Delete(t.col, P), !.xy = Delete(t.xy, P),
               !.cl = Delete(t.cl, P), !.mid = Delete(t.mid, P) ]

\* IsoEntry that leaves an unclustered entry in the table
IsoEntry_KeepNull(a, k2) ==
    [ a EXCEPT !.connected = a.connected \/ a.t.cl[k2] # None, !.k2 = k2 ]

\* IsoEntry that deletes every entry of the row, clustered or not
IsoEntry_DropAll(a, k2) ==
    [ a EXCEPT !.t = DeleteRow(a.t, {k2}), !.connected = a.connected \/ a.t.cl[k2] # None, !.k2 = k2 ]

\* inner loop over the entries of one resource row, from the last to the first
IsoEntry(a, k2) ==
    IF a.t.cl[k2] # None
    THEN [ a EXCEPT !.connected = TRUE, !.k2 = k2 ]
    ELSE [ a EXCEPT !.t = DeleteRow(a.t, {k2}), !.k2 = k2 ]

\* IsoResource that drops the entries of an isolated row and keeps its buffer
IsoResource_KeepNode(nL, a, r) ==
    LET isoPoint == Flip(Where(a.t.row, LAMBDA i : a.t.row[i] = r))
        b == Fold(IsoEntry, [t |-> a.t, connected |-> FALSE, k2 |-> 0], isoPoint)
    IN  [ a EXCEPT !.t = b.t ]

\* body of the loop over one isolated resource row r; nL = len(self.lines)
IsoResource(nL, a, r) ==
    LET isoPoint == Flip(Where(a.t.row, LAMBDA i : a.t.row[i] = r))
        b == Fold(IsoEntry, [t |-> a.t, connected |-> FALSE, k2 |-> 0], isoPoint)
    IN  IF b.connected
        THEN [ a EXCEPT !.t = b.t ]
        ELSE [ a EXCEPT !.t = IF b.k2 - 1 < Len(b.t.row)
                              THEN [ b.t EXCEPT !.row = ShiftFrom(b.t.row, b.k2, -1) ]
                              ELSE b.t,
                        !.nodes = Delete(a.nodes, {r - nL * 2 + 1}) ]

deleteIsoNodesRes(nL, ns, t) ==
    LET isoPoints == Where(t.cl, LAMBDA i : t.cl[i] = None)
        isoResourcePoints == Flip(Unique([ i \in DOMAIN isoPoints |-> t.row[isoPoints[i]] ]))
    IN  Fold(LAMBDA a, r : IsoResource(nL, a, r), [t |-> t, nodes |-> ns], isoResourcePoints)

deleteIsoNodes ==
    /\ pc = "deleteIsoNodes"
    /\ \E r \in { deleteIsoNodesRes(Len(lines), nodes,
                      [row |-> ptsRow, col |-> ptsCol, xy |-> ptsXY, cl |-> clusters, mid |-> pts]) } :
         /\ nodes' = r.nodes
         /\ ptsRow' = r.t.row
         /\ ptsCol' = r.t.col
         /\ ptsXY' = r.t.xy
         /\ clusters' = r.t.cl
         /\ pts' = r.t.mid
    /\ pc' = "reviseCoords"
    /\ UNCHANGED <<lines, clustCenters, refinements, resourcesToAdd, k1, joined, clusterPrimary,
                   radial, hist, regions, controllers>>

-----------------------------------------------------------------------------
(* reviseCoords                                                         *)

\* body of the first loop over position k of the table;
\* a = [lines, nodes, del_lines]
RevisePoint(numEndpoints, row, cl, mid, a, k) ==
    IF row[k] >= numEndpoints
    THEN LET j == row[k] - numEndpoints + 1
         IN  [ a EXCEPT !.nodes = SetAt(a.nodes, j,
                        [ a.nodes[j] EXCEPT !.cluster = Append(@, cl[k]), !.gps = mid[k] ]) ]
    ELSE LET i == (row[k] \div 2) + 1
         IN  IF row[k] % 2 = 0
             THEN [ a EXCEPT !.lines = SetLine(a.lines, i,
                        [ a.lines[i] EXCEPT !.attrib_origin = mid[k], !.clust_origin = cl[k] ]) ]
             ELSE LET pt == [ a.lines[i] EXCEPT !.attrib_dest = mid[k], !.clust_dest = cl[k] ]
                  IN  [ a EXCEPT !.lines = SetLine(a.lines, i, pt),
                                 !.del_lines = IF pt.clust_origin = pt.clust_dest
                                               THEN Append(@, i - 1) ELSE @ ]

\* RemoveSelfLoop that keeps the self-looping line and its rows
RemoveSelfLoop_Keep(a, k2) == a

\* body of the loop over one self-looping line k2 (0-based);
\* a = [lines, row, cl, del_buffers]
RemoveSelfLoop(a, k2) ==
    LET clust == a.lines[k2 + 1].clust_origin
        idxRemove == { k2 * 2 + 2, k2 * 2 + 1 }
        ls == Delete(a.lines, { k2 + 1 })
        cl == Delete(a.cl, idxRemove)
        row == ShiftFrom(Delete(a.row, idxRemove), k2 * 2 + 1, -2)
        temp == Where(cl, LAMBDA i : cl[i] = clust)
    IN  [ lines |-> ls, row |-> row, cl |-> cl,
          del_buffers |-> IF \E i \in Range(temp) : i - 1 < Len(ls) * 2
                          THEN a.del_buffers
                          ELSE a.del_buffers \o [ i \in DOMAIN temp |-> row[temp[i]] - Len(ls) * 2 ] ]

\* body of the loop over one newly isolated buffer k3 (0-based);
\* a = [nodes, row, cl, crash]
RemoveIsoBuffer(nL, a, k3) ==
    LET temp1 == Where(a.row, LAMBDA i : a.row[i] = k3 + nL * 2)
    IN  IF a.crash \/ temp1 = <<>>
        THEN [ a EXCEPT !.crash = TRUE ]
        ELSE [ a EXCEPT !.nodes = Delete(a.nodes, { k3 + 1 }),
                        !.cl = Delete(a.cl, Range(temp1)),
                        !.row = ShiftFrom(Delete(a.row, Range(temp1)), temp1[1], -1) ]

reviseCoordsRes(ls, ns, row, cl, mid) ==
    LET a == Fold(LAMBDA acc, k : RevisePoint(Len(ls) * 2, row, cl, mid, acc, k),
                  [lines |-> ls, nodes |-> ns, del_lines |-> <<>>],
                  [ k \in DOMAIN mid |-> k ])
        b == Fold(RemoveSelfLoop, [lines |-> a.lines, row |-> row, cl |-> cl, del_buffers |-> <<>>],
                  Flip(a.del_lines))
        del_buffers == SortedSeq(Range(b.del_buffers))
        c == Fold(LAMBDA acc, k3 : RemoveIsoBuffer(Len(b.lines), acc, k3),
                  [nodes |-> a.nodes, row |-> b.row, cl |-> b.cl, crash |-> FALSE],
                  Flip(del_buffers))
    IN  [ crash |-> c.crash, lines |-> b.lines, nodes |-> c.nodes, row |-> c.row, cl |-> c.cl ]

reviseCoords ==
    /\ pc = "reviseCoords"
    /\ \E r \in { reviseCoordsRes(lines, nodes, ptsRow, clusters, pts) } :
         /\ pc' = IF r.crash THEN "crashed" ELSE "condenseClusterBuffers"
         /\ lines' = r.lines
         /\ nodes' = r.nodes
         /\ ptsRow' = r.row
         /\ clusters' = r.cl
    /\ UNCHANGED <<ptsCol, ptsXY, pts, clustCenters, refinements, resourcesToAdd, k1, joined,
                   clusterPrimary, radial, hist, regions, controllers>>

-----------------------------------------------------------------------------
(* condenseClusterBuffers                                              *)

\* list.index
IndexOf(s, x) == CHOOSE i \in DOMAIN s : s[i] = x /\ \A j \in 1..(i - 1) : s[j] # x

\* the merge of currentNode into primeNode
MergeNode(primeNode, currentNode) ==
    LET duplicate == \E k3 \in DOMAIN primeNode.fuelType :
                         /\ primeNode.fuelType[k3] = currentNode.fuelType[1]
                         /\ primeNode.cap[k3] = currentNode.cap[1]
        fuelled == IF primeNode.nodeType \in {"GenC", "GenS"} /\ ~ duplicate
                   THEN [ primeNode EXCEPT !.fuelType = @ \o currentNode.fuelType,
                                           !.cap = @ \o currentNode.cap ]
                   ELSE primeNode
    IN  [ fuelled EXCEPT !.cluster = Unique(primeNode.cluster \o currentNode.cluster) ]

\* CondenseResource that records every buffer as the first of its type
CondenseResource_NoMerge(nL, b, k2) ==
    [ b EXCEPT !.nodeTypes = Append(@, b.nodes[k2 - nL * 2 + 1].nodeType),
               !.nodeIdxs = Append(@, k2 - nL * 2) ]

\* body of the loop over one buffer row k2 of the cluster;
\* b = [nodeTypes, nodeIdxs, duplicates, nodes]
CondenseResource(nL, b, k2) ==
    LET nodeIdx == k2 - nL * 2
        currentNode == b.nodes[nodeIdx + 1]
    IN  IF currentNode.nodeType \notin Range(b.nodeTypes)
        THEN [ b EXCEPT !.nodeTypes = Append(@, currentNode.nodeType),
                        !.nodeIdxs = Append(@, nodeIdx) ]
        ELSE LET prime == b.nodeIdxs[IndexOf(b.nodeTypes, currentNode.nodeType)] + 1
             IN  [ b EXCEPT !.duplicates = Append(@, nodeIdx),
                            !.nodes = SetAt(b.nodes, prime, MergeNode(b.nodes[prime], currentNode)) ]

\* the cascade that deletes duplicate k3 (0-based); a = [nodes, row, cl, crash]
DeleteDuplicate(nL, a, k3) ==
    LET temp == Where(a.row, LAMBDA i : a.row[i] = k3 + nL * 2)
    IN  IF a.crash \/ temp = <<>>
        THEN [ a EXCEPT !.crash = TRUE ]
        ELSE [ a EXCEPT !.cl = Delete(a.cl, Range(temp)),
                        !.row = ShiftFrom(Delete(a.row, Range(temp)), temp[1], -1),
                        !.nodes = Delete(a.nodes, { k3 + 1 }) ]

\* body of the loop over one cluster id c
CondenseCluster(nL, a, c) ==
    LET foundClust == Where(a.cl, LAMBDA i : a.cl[i] = c)
        resources == SelectSeq([ i \in DOMAIN foundClust |-> a.row[foundClust[i]] ],
                               LAMBDA r : r >= nL * 2)
        b == Fold(LAMBDA acc, k2 : CondenseResource(nL, acc, k2),
                  [nodeTypes |-> <<>>, nodeIdxs |-> <<>>, duplicates |-> <<>>, nodes |-> a.nodes],
                  resources)
    IN  IF a.crash \/ Len(resources) <= 1
        THEN a
        ELSE Fold(LAMBDA acc, k3 : DeleteDuplicate(nL, acc, k3), [ a EXCEPT !.nodes = b.nodes ],
                  Flip(b.duplicates))

condenseClusterBuffersRes(nL, ns, row, cl) ==
    Fold(LAMBDA acc, c : CondenseCluster(nL, acc, c),
         [nodes |-> ns, row |-> row, cl |-> cl, crash |-> FALSE], SortedSeq(Range(cl)))

condenseClusterBuffers ==
    /\ pc = "condenseClusterBuffers"
    /\ \E r \in { condenseClusterBuffersRes(Len(lines), nodes, ptsRow, clusters) } :
         /\ pc' = IF r.crash THEN "crashed" ELSE "joinLineSegs"
         /\ nodes' = r.nodes
         /\ ptsRow' = r.row
         /\ clusters' = r.cl
    /\ UNCHANGED <<lines, ptsCol, ptsXY, pts, clustCenters, refinements, resourcesToAdd, k1, joined,
                   clusterPrimary, radial, hist, regions, controllers>>

-----------------------------------------------------------------------------
(* joinLineSegs, one iteration of the sweep per step                   *)

joinLineSegsEnter ==
    /\ pc = "joinLineSegs"
    /\ pc' = "joinLineSegsLoop"
    /\ joined' = 0
    /\ k1' = 0
    /\ hist' = [ lines |-> lines, nodes |-> nodes, row |-> ptsRow, clusters |-> clusters ]
    /\ UNCHANGED <<lines, nodes, ptsRow, ptsCol, ptsXY, clusters, clustCenters, pts, refinements,
                   resourcesToAdd, clusterPrimary, radial, regions, controllers>>

\* np.unique(resourceIdx[np.where(clusters == c)[0]])
ClusterResources(row, cl, c) == SortedSeq({ row[i] : i \in { j \in DOMAIN cl : cl[j] = c } })

\* Fuse without the shift of the resource indices behind the deleted rows
Fuse_NoShift(ls, row, cl, k, end, idxPipe2, pipe1) ==
    LET moved == IF end = 0 THEN pipe1.clust_origin ELSE pipe1.clust_dest
        cl0 == [ i \in DOMAIN cl |-> IF row[i] = k * 2 + end THEN moved ELSE cl[i] ]
        keep == { i \in DOMAIN row : row[i] \notin { idxPipe2 * 2, idxPipe2 * 2 + 1 } }
    IN  [ res |-> "fused",
          lines |-> Delete(SetLine(ls, k + 1, pipe1), { idxPipe2 + 1 }),
          row |-> Delete(row, DOMAIN row \ keep),
          cl |-> Delete(cl0, DOMAIN row \ keep) ]

\* Fuse that deletes pipe2 and its rows but leaves pipe1 ending where it ended
Fuse_KeepEnd(ls, row, cl, k, end, idxPipe2, pipe1) ==
    LET keep == { i \in DOMAIN row : row[i] \notin { idxPipe2 * 2, idxPipe2 * 2 + 1 } }
        row1 == Delete(row, DOMAIN row \ keep)
        idx == { i \in DOMAIN row1 : row1[i] = (idxPipe2 + 1) * 2 }
    IN  [ res |-> "fused",
          lines |-> Delete(ls, { idxPipe2 + 1 }),
          row |-> IF idx # {} THEN ShiftFrom(row1, Min(idx), -2) ELSE row1,
          cl |-> Delete(cl, DOMAIN row \ keep) ]

\* Fuse that hands pipe1 the far end of pipe2 but leaves the entry of the moved
\* endpoint in the cluster the two transporters met in
Fuse_NoRelabel(ls, row, cl, k, end, idxPipe2, pipe1) ==
    LET idx2Del == { i \in DOMAIN row : row[i] \in { idxPipe2 * 2, idxPipe2 * 2 + 1 } }
        cl2 == Delete(cl, idx2Del)
        row2 == Delete(row, idx2Del)
        idx == { i \in DOMAIN row2 : row2[i] = (idxPipe2 + 1) * 2 }
    IN  [ res |-> "fused",
          lines |-> Delete(SetLine(ls, k + 1, pipe1), { idxPipe2 + 1 }),
          row |-> IF idx # {} THEN ShiftFrom(row2, Min(idx), -2) ELSE row2,
          cl |-> cl2 ]

\* the tail shared by both analyses: re-label the moved endpoint of pipe1, delete
\* the rows of pipe2, shift the indices behind them, delete pipe2
Fuse(ls, row, cl, k, end, idxPipe2, pipe1) ==
    LET moved == IF end = 0 THEN pipe1.clust_origin ELSE pipe1.clust_dest
        cl0 == [ i \in DOMAIN cl |-> IF row[i] = k * 2 + end THEN moved ELSE cl[i] ]
        idx2Del1 == { i \in DOMAIN row : row[i] = idxPipe2 * 2 }
        cl1 == Delete(cl0, idx2Del1)
        row1 == Delete(row, idx2Del1)
        idx2Del2 == { i \in DOMAIN row1 : row1[i] = idxPipe2 * 2 + 1 }
        cl2 == Delete(cl1, idx2Del2)
        row2 == Delete(row1, idx2Del2)
        idx == { i \in DOMAIN row2 : row2[i] = (idxPipe2 + 1) * 2 }
    IN  IF row2 = <<>> \/ (idxPipe2 * 2 + 1 < Max(Range(row2)) /\ idx = {})
        THEN [ res |-> "crash" ]
        ELSE [ res |-> "fused",
               lines |-> Delete(SetLine(ls, k + 1, pipe1), { idxPipe2 + 1 }),
               row |-> IF idxPipe2 * 2 + 1 < Max(Range(row2))
                       THEN ShiftFrom(row2, Min(idx), -2) ELSE row2,
               cl |-> cl2 ]

\* the analysis of one end that recognises only a pair laid head to tail
\* (pipe2 ends where pipe1 starts, or pipe2 starts where pipe1 ends)
JoinEnd_HeadToTail(ls, row, cl, k, end) ==
    LET pipe1 == ls[k + 1]
        resources == ClusterResources(row, cl, IF end = 0 THEN pipe1.clust_origin
                                                          ELSE pipe1.clust_dest)
        other == SelectSeq(resources, LAMBDA r : k * 2 + end # r)
        idxPipe2 == other[1] \div 2
        pipe2 == ls[idxPipe2 + 1]
    IN  IF Len(resources) # 2 \/ \E i \in DOMAIN resources : resources[i] >= Len(ls) * 2
        THEN [ res |-> "pass" ]
        ELSE IF Len(other) # 1 \/ idxPipe2 + 1 > Len(ls)
        THEN [ res |-> "crash" ]
        ELSE IF end = 0
        THEN IF pipe1.clust_origin = pipe2.clust_dest /\ ~ (pipe1.clust_dest = pipe2.clust_origin)
             THEN Fuse(ls, row, cl, k, end, idxPipe2,
                       [ pipe1 EXCEPT !.clust_origin = pipe2.clust_origin,
                                      !.attrib_origin = pipe2.attrib_origin ])
             ELSE [ res |-> "loop" ]
        ELSE IF pipe1.clust_dest = pipe2.clust_origin /\ ~ (pipe1.clust_origin = pipe2.clust_dest)
             THEN Fuse(ls, row, cl, k, end, idxPipe2,
                       [ pipe1 EXCEPT !.clust_dest = pipe2.clust_dest,
                                      !.attrib_dest = pipe2.attrib_dest ])
             ELSE [ res |-> "loop" ]

\* the analysis of one end of pipe1 = lines[k] (end 0: origin, end 1: destination)
JoinEnd(ls, row, cl, k, end) ==
    LET pipe1 == ls[k + 1]
        resources == ClusterResources(row, cl, IF end = 0 THEN pipe1.clust_origin
                                                          ELSE pipe1.clust_dest)
        other == SelectSeq(resources, LAMBDA r : k * 2 + end # r)
        idxPipe2 == other[1] \div 2
        pipe2 == ls[idxPipe2 + 1]
    IN  IF Len(resources) # 2 \/ \E i \in DOMAIN resources : resources[i] >= Len(ls) * 2
        THEN [ res |-> "pass" ]
        ELSE IF Len(other) # 1 \/ idxPipe2 + 1 > Len(ls)
        THEN [ res |-> "crash" ]
        ELSE IF end = 0
        THEN IF pipe1.clust_origin = pipe2.clust_dest /\ ~ (pipe1.clust_dest = pipe2.clust_origin)
             THEN Fuse(ls, row, cl, k, end, idxPipe2,
                       [ pipe1 EXCEPT !.clust_origin = pipe2.clust_origin,
                                      !.attrib_origin = pipe2.attrib_origin ])
             ELSE IF pipe1.clust_origin = pipe2.clust_origin /\ ~ (pipe1.clust_dest = pipe2.clust_dest)
             THEN Fuse(ls, row, cl, k, end, idxPipe2,
                       [ pipe1 EXCEPT !.clust_origin = pipe2.clust_dest,
                                      !.attrib_origin = pipe2.attrib_dest ])
             ELSE [ res |-> "loop" ]
        ELSE IF pipe1.clust_dest = pipe2.clust_dest /\ ~ (pipe1.clust_origin = pipe2.clust_origin)
             THEN Fuse(ls, row, cl, k, end, idxPipe2,
                       [ pipe1 EXCEPT !.clust_dest = pipe2.clust_origin,
                                      !.attrib_dest = pipe2.attrib_origin ])
             ELSE IF pipe1.clust_dest = pipe2.clust_origin /\ ~ (pipe1.clust_origin = pipe2.clust_dest)
             THEN Fuse(ls, row, cl, k, end, idxPipe2,
                       [ pipe1 EXCEPT !.clust_dest = pipe2.clust_dest,
                                      !.attrib_dest = pipe2.attrib_dest ])
             ELSE [ res |-> "loop" ]

\* an iteration that analyses the origin of pipe1 only
JoinIteration_OriginOnly(ls, row, cl, k) == JoinEnd(ls, row, cl, k, 0)

\* one iteration of the while loop
JoinIteration(ls, row, cl, k) ==
    LET o == JoinEnd(ls, row, cl, k, 0)
    IN  IF o.res = "pass" THEN JoinEnd(ls, row, cl, k, 1) ELSE o

\* an iteration that, finding no fusion at the last transporter, starts over
joinLineSegsStep_StartOver ==
    /\ pc = "joinLineSegsLoop"
    /\ k1 < Len(lines)
    /\ \E r \in { JoinIteration(lines, ptsRow, clusters, k1) } :
         IF r.res = "fused"
         THEN /\ lines' = r.lines
              /\ ptsRow' = r.row
              /\ clusters' = r.cl
              /\ joined' = joined + 1
              /\ UNCHANGED <<k1, pc>>
         ELSE /\ pc' = IF r.res = "crash" THEN "crashed" ELSE pc
              /\ k1' = (k1 + 1) % Len(lines)
              /\ UNCHANGED <<lines, ptsRow, clusters, joined>>
    /\ UNCHANGED <<nodes, ptsCol, ptsXY, clustCenters, pts, refinements, resourcesToAdd,
                   clusterPrimary, radial, hist, regions, controllers>>

joinLineSegsStep ==
    /\ pc = "joinLineSegsLoop"
    /\ k1 < Len(lines)
    /\ \E r \in { JoinIteration(lines, ptsRow, clusters, k1) } :
         IF r.res = "fused"
         THEN /\ lines' = r.lines
              /\ ptsRow' = r.row
              /\ clusters' = r.cl
              /\ joined' = joined + 1
              /\ UNCHANGED <<k1, pc>>
         ELSE /\ pc' = IF r.res = "crash" THEN "crashed" ELSE pc
              /\ k1' = k1 + 1
              /\ UNCHANGED <<lines, ptsRow, clusters, joined>>
    /\ UNCHANGED <<nodes, ptsCol, ptsXY, clustCenters, pts, refinements, resourcesToAdd,
                   clusterPrimary, radial, hist, regions, controllers>>

joinLineSegsReturn ==
    /\ pc = "joinLineSegsLoop"
    /\ ~ (k1 < Len(lines))
    /\ pc' = "addIndBuffers"
    /\ UNCHANGED <<lines, nodes, ptsRow, ptsCol, ptsXY, clusters, clustCenters, pts, refinements,
                   resourcesToAdd, k1, joined, clusterPrimary, radial, hist, regions, controllers>>

-----------------------------------------------------------------------------
(* addIndBuffers                                                       *)

\* the class of the junction buffer chosen by the refinements met at the cluster
IndBufferClass(refs) ==
    IF ELEC \in refs THEN "Bus"
    ELSE IF refs \cap {PGAS, SYNGAS, RGAS} # {} THEN "NGIndBuffer"
    ELSE IF refs \cap {POIL, COIL, LBIO, WATER} # {} THEN "OilIndBuffer"
    ELSE IF SBIO \in refs THEN "OilIndBuffer"
    ELSE IF COAL \in refs THEN "CoalIndBuffer"
    ELSE IF OTHERREF \in refs THEN "Bus"
    ELSE "unhandled"

\* body of the loop over position k (0-based) of clustsU;
\* a = [buffers, expanded_clusts, expanded_buffers, count]
AddIndBuffer(ls, row, cl, centers, clustsU, a, k) ==
    LET resources == ClusterResources(row, cl, clustsU[k + 1])
        refs == UNION { Range(ls[(resources[i] \div 2) + 1].refinement) : i \in DOMAIN resources }
        new_instance == [ nodeName |-> <<"IndBuffer", a.count>>,
                          nodeType |-> IndBufferClass(refs),
                          refinement |-> <<>>, fuelType |-> <<>>, cap |-> <<>>,
                          attrib_ref |-> refs,
                          controller |-> <<>>,
                          state |-> NoAttr, iso |-> NoAttr,
                          gps |-> centers[k + 1],
                          cluster |-> << clustsU[k + 1] >> ]
    IN  IF \E i \in DOMAIN resources : resources[i] >= Len(ls) * 2
        THEN a
        ELSE IF IndBufferClass(refs) = "unhandled"
        THEN a
        ELSE [ buffers |-> Append(a.buffers, new_instance),
               expanded_clusts |-> Append(a.expanded_clusts, clustsU[k + 1]),
               expanded_buffers |-> Append(a.expanded_buffers, Max(Range(row)) + a.count + 1),
               count |-> a.count + 1 ]

addIndBuffersRes(ls, ns, row, cl, centers) ==
    LET clustsU == SortedSeq(Range(cl))
        a == Fold(LAMBDA acc, k : AddIndBuffer(ls, row, cl, centers, clustsU, acc, k),
                  [buffers |-> <<>>, expanded_clusts |-> <<>>, expanded_buffers |-> <<>>, count |-> 0],
                  [ k \in DOMAIN clustsU |-> k - 1 ])
    IN  [ nodes |-> ns \o a.buffers, row |-> row \o a.expanded_buffers,
          cl |-> cl \o a.expanded_clusts ]

addIndBuffers ==
    /\ pc = "addIndBuffers"
    /\ \E r \in { addIndBuffersRes(lines, nodes, ptsRow, clusters, clustCenters) } :
         /\ nodes' = r.nodes
         /\ ptsRow' = r.row
         /\ clusters' = r.cl
    /\ pc' = "setNodeStates"
    /\ UNCHANGED <<lines, ptsCol, ptsXY, pts, clustCenters, refinements, resourcesToAdd, k1, joined,
                   clusterPrimary, radial, hist, regions, controllers>>

-----------------------------------------------------------------------------
(* setNodeStates. A polygon of the region files is the strip lo < x < hi. *)

\* Point(coords).within(shape(boundary)) for a coordinate <<sx, sy, n>> or <<x, y>>
Within(gps, poly) ==
    LET n == IF Len(gps) = 3 THEN gps[3] ELSE 1
    IN  poly.lo * n < gps[1] /\ gps[1] < poly.hi * n

\* Point(coords).distance(shape(boundary)), scaled by the members of the centroid
Distance(gps, poly) ==
    LET n == IF Len(gps) = 3 THEN gps[3] ELSE 1
    IN  IF gps[1] < poly.lo * n THEN poly.lo * n - gps[1]
        ELSE IF gps[1] > poly.hi * n THEN gps[1] - poly.hi * n
        ELSE 0

\* the label of the first polygon holding the point, else of the nearest one
PolygonLabel(gps, polys) ==
    IF \E j \in DOMAIN polys : Within(gps, polys[j])
    THEN polys[Min({ j \in DOMAIN polys : Within(gps, polys[j]) })].label
    ELSE polys[ArgMin([ j \in DOMAIN polys |-> j ], LAMBDA j : Distance(gps, polys[j]))].label

\* the markers tested by setISO that occur in a label of the ISO column
Markers(ISO) ==
    IF ISO = "ISO NEW ENGLAND" THEN {"NEW ENGLAND"}
    ELSE IF ISO = "NEW YORK ISO" THEN {"NEW YORK"}
    ELSE IF ISO = "NYISO" THEN {"NYISO"}
    ELSE IF ISO = "PJM INTERCONNECTION" THEN {"PJM"}
    ELSE IF ISO = "PJM" THEN {"PJM"}
    ELSE {}

\* the label setISO appends
setISO(ISO) ==
    IF "NEW ENGLAND" \in Markers(ISO) \/ "ISONE" \in Markers(ISO) THEN "ISONE"
    ELSE IF "NEW YORK" \in Markers(ISO) \/ "NYISO" \in Markers(ISO) THEN "NYISO"
    ELSE IF "PJM" \in Markers(ISO) THEN "PJM"
    ELSE ISO

\* body of the loop over buffer i; a = [nodes, controllers]
NodeState(regs, a, i) ==
    LET node == a.nodes[i]
        state == IF node.state \notin {NoAttr, NoLabel} THEN node.state
                 ELSE PolygonLabel(node.gps, regs.states)
        iso == IF node.iso = NoAttr THEN <<>>
               ELSE IF node.iso # NoLabel THEN << setISO(node.iso) >>
               ELSE << setISO(PolygonLabel(node.gps, regs.isos)) >>
    IN  [ nodes |-> SetAt(a.nodes, i, [ node EXCEPT !.controller = <<state>> \o iso ]),
          controllers |-> Unique(a.controllers \o <<state>> \o iso) ]

setNodeStatesRes(ns, regs) ==
    Fold(LAMBDA a, i : NodeState(regs, a, i), [nodes |-> ns, controllers |-> <<>>],
         [ i \in DOMAIN ns |-> i ])

setNodeStates ==
    /\ pc = "setNodeStates"
    /\ IF regions.states = <<>>
       THEN UNCHANGED <<nodes, controllers>>
       ELSE \E r \in { setNodeStatesRes(nodes, regions) } :
                /\ nodes' = r.nodes
                /\ controllers' = r.controllers
    /\ pc' = "setPipeODNames2"
    /\ UNCHANGED <<lines, ptsRow, ptsCol, ptsXY, clusters, clustCenters, pts, refinements,
                   resourcesToAdd, k1, joined, clusterPrimary, radial, hist, regions>>

-----------------------------------------------------------------------------
(* findClusterPrimary                                                   *)

\* body of the loop over member k of nodeIdxs; a = [idx, type, done],
\* idx = primaryNodeIdx, type = primaryNodeType, done = the loop has hit break
PrimaryStep(lineType, ns, a, k) ==
    LET t == ns[k + 1].nodeType
        brk == [ a EXCEPT !.idx = k, !.done = TRUE ]
        set == [ a EXCEPT !.idx = k, !.type = t ]
    IN  IF a.done THEN a
        ELSE IF lineType = "ElecLine"
        THEN IF t = "LoadC" THEN brk
             ELSE IF t = "LoadS" THEN set
             ELSE IF t = "GenC" /\ a.type # "LoadS" THEN set
             ELSE IF t = "GenS" /\ a.type # "LoadS" /\ a.type # "GenC" THEN set
             ELSE a
        ELSE IF lineType = "NGPipe"
        THEN IF t = "NGReceiptDelivery" THEN brk
             ELSE IF t = "NGProcessor" THEN set
             ELSE IF t = "compressor" /\ a.type # "NGProcessor" THEN set
             ELSE set
        ELSE IF lineType \in {"OilRefPipe", "OilCrudePipe", "oilCPipe", "oilCrudePipe"}
        THEN IF t = "OilPort" THEN brk
             ELSE IF t = "OilTerminal" THEN set
             ELSE IF t = "OilRefinery" /\ a.type # "OilTerminal" THEN set
             ELSE a
        ELSE IF lineType = "CoalRailroad"
        THEN IF t = "CoalDock" THEN brk
             ELSE IF t = "CoalSource" THEN set
             ELSE a
        ELSE a

\* primaryNodeIdx (0-based) or None
findClusterPrimary(lineType, ns, nodeIdxs) ==
    Fold(LAMBDA a, k : PrimaryStep(lineType, ns, a, k),
         [idx |-> None, type |-> "", done |-> FALSE], nodeIdxs).idx

-----------------------------------------------------------------------------
(* setPipeODNames2 and linkClusterBuffers                               *)

\* resourceIdx[np.where(clusters == c)[0]] restricted to buffers, as node indices
ClusterBuffers(nL, row, cl, c) ==
    LET found == Where(cl, LAMBDA i : cl[i] = c)
        res == SelectSeq([ i \in DOMAIN found |-> row[found[i]] ], LAMBDA r : r >= nL * 2)
    IN  [ i \in DOMAIN res |-> res[i] - nL * 2 ]

\* dict assignment d[key] = val on a dict kept as a sequence of entries
DictSet(d, key, val) ==
    IF \E i \in DOMAIN d : d[i].key = key
    THEN [ i \in DOMAIN d |-> IF d[i].key = key THEN [key |-> key, val |-> val] ELSE d[i] ]
    ELSE Append(d, [key |-> key, val |-> val])

DictHas(d, key) == \E i \in DOMAIN d : d[i].key = key
DictGet(d, key) == d[CHOOSE i \in DOMAIN d : d[i].key = key].val

\* NameEnd that names an end only when it resolves the cluster itself: an end
\* whose cluster already has a primary keeps its coordinate
NameEnd_FirstOnly(ns, row, cl, a, i, end) ==
    LET pipe == a.lines[i]
        c == IF end = 0 THEN pipe.clust_origin ELSE pipe.clust_dest
        resources == ClusterBuffers(Len(a.lines), row, cl, c)
        found == IF Len(resources) > 1 THEN findClusterPrimary(pipe.type, ns, resources)
                 ELSE IF Len(resources) = 1 THEN resources[1]
                 ELSE None
        name == [isName |-> TRUE, name |-> ns[found + 1].nodeName]
        named == IF end = 0 THEN [ pipe EXCEPT !.fBus = name ] ELSE [ pipe EXCEPT !.tBus = name ]
    IN  IF a.crash \/ DictHas(a.primary, c) THEN a
        ELSE IF found = None THEN [ a EXCEPT !.crash = TRUE ]
        ELSE [ a EXCEPT !.lines = SetLine(a.lines, i, named),
                        !.primary = DictSet(a.primary, c, found),
                        !.radial = IF Len(resources) > 1
                                   THEN DictSet(a.radial, found, <<pipe.type, c>>)
                                   ELSE a.radial ]

\* NameEnd that appends the controllers of the buffer without looking for
\* the ones the transporter already has
NameEnd_NoDedup(ns, row, cl, a, i, end) ==
    LET pipe == a.lines[i]
        c == IF end = 0 THEN pipe.clust_origin ELSE pipe.clust_dest
        resources == ClusterBuffers(Len(a.lines), row, cl, c)
        found == IF DictHas(a.primary, c) THEN DictGet(a.primary, c)
                 ELSE IF Len(resources) > 1 THEN findClusterPrimary(pipe.type, ns, resources)
                 ELSE IF Len(resources) = 1 THEN resources[1]
                 ELSE None
        name == [isName |-> TRUE, name |-> ns[found + 1].nodeName]
        controller == pipe.controller \o ns[found + 1].controller
        named == IF end = 0 THEN [ pipe EXCEPT !.fBus = name, !.controller = controller ]
                 ELSE [ pipe EXCEPT !.tBus = name, !.controller = controller ]
    IN  IF a.crash THEN a
        ELSE IF found = None THEN [ a EXCEPT !.crash = TRUE ]
        ELSE [ a EXCEPT !.lines = SetLine(a.lines, i, named),
                        !.primary = DictSet(a.primary, c, found),
                        !.radial = IF ~ DictHas(a.primary, c) /\ Len(resources) > 1
                                   THEN DictSet(a.radial, found, <<pipe.type, c>>)
                                   ELSE a.radial ]

\* naming of one end of pipe i (1-based; end 0: origin, end 1: destination);
\* a = [lines, primary, radial, crash]
NameEnd(ns, row, cl, a, i, end) ==
    LET pipe == a.lines[i]
        c == IF end = 0 THEN pipe.clust_origin ELSE pipe.clust_dest
        resources == ClusterBuffers(Len(a.lines), row, cl, c)
        found == IF DictHas(a.primary, c) THEN DictGet(a.primary, c)
                 ELSE IF Len(resources) > 1 THEN findClusterPrimary(pipe.type, ns, resources)
                 ELSE IF Len(resources) = 1 THEN resources[1]
                 ELSE None
        name == [isName |-> TRUE, name |-> ns[found + 1].nodeName]
        controller == Unique(pipe.controller \o ns[found + 1].controller)
        named == IF end = 0 THEN [ pipe EXCEPT !.fBus = name, !.controller = controller ]
                 ELSE [ pipe EXCEPT !.tBus = name, !.controller = controller ]
    IN  IF a.crash THEN a
        ELSE IF found = None THEN [ a EXCEPT !.crash = TRUE ]
        ELSE [ a EXCEPT !.lines = SetLine(a.lines, i, named),
                        !.primary = DictSet(a.primary, c, found),
                        !.radial = IF ~ DictHas(a.primary, c) /\ Len(resources) > 1
                                   THEN DictSet(a.radial, found, <<pipe.type, c>>)
                                   ELSE a.radial ]

\* body of the loop over pipe i
NamePipe(ns, row, cl, a, i) ==
    IF a.crash THEN a
    ELSE NameEnd(ns, row, cl,
                 NameEnd(ns, row, cl,
                         [ a EXCEPT !.lines = SetLine(a.lines, i, [ a.lines[i] EXCEPT !.controller = <<>> ]) ],
                         i, 0),
                 i, 1)

\* the class of a connector of the given line type
ConnectorKind(lineType) ==
    IF lineType = "ElecLine" THEN [known |-> TRUE, prefix |-> "Transmission Line Connector", type |-> "ElecLine"]
    ELSE IF lineType = "NGPipe" THEN [known |-> TRUE, prefix |-> "NG Pipeline Connector", type |-> "NGPipe"]
    ELSE IF lineType = "OilRefPipe" THEN [known |-> TRUE, prefix |-> "Refined Oil Pipeline Connector", type |-> "OilRefPipe"]
    ELSE IF lineType \in {"OilCrudePipe", "oilCrudePipe"} THEN [known |-> TRUE, prefix |-> "Crude Oil Pipeline Connector", type |-> "OilCrudePipe"]
    ELSE IF lineType = "CoalRailroad" THEN [known |-> TRUE, prefix |-> "Coal Railroad Connector", type |-> "CoalRailroad"]
    ELSE [known |-> FALSE, prefix |-> "", type |-> ""]

\* LinkBuffer that links the primary buffer like any other member of its cluster
LinkBuffer_WithPrimary(ns, p, lineType, cluster, a, nodeIdx) ==
    LET primaryNode == ns[p + 1]
        currentNode == ns[nodeIdx + 1]
        kind == ConnectorKind(lineType)
        sharedRef == IF lineType = "ElecLine"
                     THEN IF ELEC \in Range(currentNode.refinement) THEN <<ELEC>> ELSE <<>>
                     ELSE SelectSeq(primaryNode.refinement,
                                    LAMBDA r : r \in Range(currentNode.refinement))
        n == Cardinality({ a.new[i].lineName : i \in { j \in DOMAIN a.new : a.new[j].lineName[1] = kind.prefix } }) + 1
        fresh == [ lineName |-> <<kind.prefix, n>>, type |-> kind.type, refinement |-> sharedRef,
                   fBus |-> [isName |-> TRUE, name |-> primaryNode.nodeName],
                   tBus |-> [isName |-> TRUE, name |-> currentNode.nodeName],
                   attrib_origin |-> primaryNode.nodeName, attrib_dest |-> currentNode.nodeName,
                   controller |-> Unique(primaryNode.controller \o currentNode.controller),
                   clust_origin |-> cluster, clust_dest |-> cluster ]
    IN  IF a.crash THEN a
        ELSE IF kind.known /\ sharedRef # <<>>
        THEN [ a EXCEPT !.new = Append(a.new, fresh), !.inst = fresh ]
        ELSE IF a.new = <<>> THEN [ a EXCEPT !.crash = TRUE ]
        ELSE LET stale == [ a.inst EXCEPT !.fBus = fresh.fBus, !.tBus = fresh.tBus,
                                          !.attrib_origin = fresh.attrib_origin,
                                          !.attrib_dest = fresh.attrib_dest,
                                          !.controller = Unique(a.inst.controller \o fresh.controller),
                                          !.clust_origin = cluster, !.clust_dest = cluster ]
             IN  [ a EXCEPT !.new = Append(SetLine(a.new, Len(a.new), stale), stale), !.inst = stale ]

\* body of the loop over member nodeIdx of the cluster of primary p;
\* a = [new: connectors so far, inst: new_instance, crash]
LinkBuffer(ns, p, lineType, cluster, a, nodeIdx) ==
    LET primaryNode == ns[p + 1]
        currentNode == ns[nodeIdx + 1]
        kind == ConnectorKind(lineType)
        sharedRef == IF lineType = "ElecLine"
                     THEN IF ELEC \in Range(currentNode.refinement) THEN <<ELEC>> ELSE <<>>
                     ELSE SelectSeq(primaryNode.refinement,
                                    LAMBDA r : r \in Range(currentNode.refinement))
        n == Cardinality({ a.new[i].lineName : i \in { j \in DOMAIN a.new : a.new[j].lineName[1] = kind.prefix } }) + 1
        fresh == [ lineName |-> <<kind.prefix, n>>, type |-> kind.type, refinement |-> sharedRef,
                   fBus |-> [isName |-> TRUE, name |-> primaryNode.nodeName],
                   tBus |-> [isName |-> TRUE, name |-> currentNode.nodeName],
                   attrib_origin |-> primaryNode.nodeName, attrib_dest |-> currentNode.nodeName,
                   controller |-> Unique(primaryNode.controller \o currentNode.controller),
                   clust_origin |-> cluster, clust_dest |-> cluster ]
    IN  IF a.crash \/ p = nodeIdx THEN a
        ELSE IF kind.known /\ sharedRef # <<>>
        THEN [ a EXCEPT !.new = Append(a.new, fresh), !.inst = fresh ]
        ELSE IF a.new = <<>> THEN [ a EXCEPT !.crash = TRUE ]
        ELSE LET stale == [ a.inst EXCEPT !.fBus = fresh.fBus, !.tBus = fresh.tBus,
                                          !.attrib_origin = fresh.attrib_origin,
                                          !.attrib_dest = fresh.attrib_dest,
                                          !.controller = Unique(a.inst.controller \o fresh.controller),
                                          !.clust_origin = cluster, !.clust_dest = cluster ]
             IN  [ a EXCEPT !.new = Append(SetLine(a.new, Len(a.new), stale), stale), !.inst = stale ]

linkClusterBuffers(ls, ns, row, cl, clusterRadialCenter) ==
    Fold(LAMBDA a, e : Fold(LAMBDA b, nodeIdx : LinkBuffer(ns, e.key, e.val[1], e.val[2], b, nodeIdx),
                            a, ClusterBuffers(Len(ls), row, cl, e.val[2])),
         [new |-> <<>>, inst |-> <<>>, crash |-> FALSE], clusterRadialCenter)

setPipeODNames2Res(ls, ns, row, cl) ==
    LET a == Fold(LAMBDA acc, i : NamePipe(ns, row, cl, acc, i),
                  [lines |-> ls, primary |-> <<>>, radial |-> <<>>, crash |-> FALSE],
                  [ i \in DOMAIN ls |-> i ])
        b == linkClusterBuffers(a.lines, ns, row, cl, a.radial)
    IN  IF a.crash THEN [ crash |-> TRUE ]
        ELSE IF b.crash THEN [ crash |-> TRUE ]
        ELSE [ crash |-> FALSE, lines |-> a.lines \o b.new, primary |-> a.primary, radial |-> a.radial ]

setPipeODNames2 ==
    /\ pc = "setPipeODNames2"
    /\ \E r \in { setPipeODNames2Res(lines, nodes, ptsRow, clusters) } :
         IF r.crash
         THEN /\ pc' = "crashed"
              /\ UNCHANGED <<lines, clusterPrimary, radial>>
         ELSE /\ pc' = "done"
              /\ lines' = r.lines
              /\ clusterPrimary' = r.primary
              /\ radial' = r.radial
    /\ UNCHANGED <<nodes, ptsRow, ptsCol, ptsXY, clusters, clustCenters, pts, refinements,
                   resourcesToAdd, k1, joined, hist, regions, controllers>>

Next ==
    \/ snapEdges2GridRef
    \/ updateTransporters
    \/ deleteIsoNodes
    \/ reviseCoords
    \/ condenseClusterBuffers
    \/ joinLineSegsEnter
    \/ joinLineSegsStep
    \/ joinLineSegsReturn
    \/ addIndBuffers
    \/ setNodeStates
    \/ setPipeODNames2

Spec == Init /\ [][Next]_vars

-----------------------------------------------------------------------------
(* Runs with controller regions: a state file and a control-area file are   *)
(* loaded, and the shape records of the buffers carry STUSPS and ISO        *)

RegionFiles ==
    [ states |-> << [lo |-> 0, hi |-> 7030, label |-> "NY"],
                    [lo |-> 7040, hi |-> 8000, label |-> "PA"] >>,
      isos |-> << [lo |-> 0, hi |-> 7030, label |-> "NEW YORK ISO"],
                  [lo |-> 7030, hi |-> 20000, label |-> "PJM INTERCONNECTION"] >> ]

StateLabels == { NoAttr, NoLabel, "PJM" }
IsoLabels == { NoAttr, NoLabel, "PJM" }

\* the records of ns with every choice of the two attributes
Attributed(ns) ==
    { [ j \in DOMAIN ns |-> [ ns[j] EXCEPT !.state = f[j][1], !.iso = f[j][2] ] ] :
          f \in [ DOMAIN ns -> StateLabels \X IsoLabels ] }

\* the inputs of the set base that have one power or gas transporter between
\* two sites and at least one buffer, with every choice of the attributes
RegionInputs(base) ==
    UNION { { <<x[1], ns>> : ns \in Attributed(x[2]) } :
            x \in { y \in base : Len(y[1]) = 1 /\ y[1][1].o # y[1][1].d /\ y[1][1].kind <= 2 /\ y[2] # <<>> } }

InitRegions == \E x \in RegionInputs(Inputs) : Start(x, RegionFiles)

SpecRegions == InitRegions /\ [][Next]_vars

-----------------------------------------------------------------------------
(* Runs on an oil system: up to MaxLines - 1 pipelines of the crude pipeline *)
(* file carrying crude oil or a refined product, all leaving the first site *)
(* where up to MaxNodes terminals and refineries stand                      *)

OilLineRecs == { k \in DOMAIN LineKinds : LineKinds[k].refinement[1] \in {COIL, POIL} }
OilNodeRecs == [ kind : { k \in DOMAIN NodeKinds : NodeKinds[k].sys = "oil" }, xy : NodeXY,
                 state : {NoAttr}, iso : {NoAttr} ]

OilLineInputs ==
    UNION { { [ i \in 1..n |-> [kind |-> f[i], o |-> 1, d |-> i + 1] ] : f \in [ 1..n -> OilLineRecs ] } :
            n \in 1..(MaxLines - 1) }

OilNodeInputs ==
    UNION { { ns \in [ 1..n -> OilNodeRecs ] :
                  \A i, j \in 1..n : i < j => ns[i].kind <= ns[j].kind /\ ns[i].xy # ns[j].xy } :
            n \in 1..MaxNodes }

OilInputs == OilLineInputs \X OilNodeInputs

InitOil == \E x \in OilInputs : Start(x, NoRegions)

SpecOil == InitOil /\ [][Next]_vars

-----------------------------------------------------------------------------
(* Runs on an electric grid with hydro power: one transmission line between *)
(* two sites and up to MaxNodes plants, pumped storages and loads at the    *)
(* first site                                                               *)

\* position of a buffer class in ElectricGrid.get_all_nodes
StackRank(k) ==
    IF NodeKinds[k].nodeType = "GenC" THEN 1
    ELSE IF NodeKinds[k].nodeType = "GenS" THEN 2
    ELSE IF NodeKinds[k].nodeType = "StoreC" THEN 3
    ELSE 5

HydroNodeRecs == [ kind : { k \in DOMAIN NodeKinds :
                               /\ NodeKinds[k].sys = "elec"
                               /\ Range(NodeKinds[k].refinement) \cap {SOLAR, POIL} = {} },
                   xy : NodeXY,
                   state : {NoAttr}, iso : {NoAttr} ]

HydroNodeInputs ==
    UNION { { ns \in [ 1..n -> HydroNodeRecs ] :
                  \A i, j \in 1..n :
                      i < j => StackRank(ns[i].kind) <= StackRank(ns[j].kind) /\ ns[i].xy # ns[j].xy } :
            n \in 1..MaxNodes }

HydroInputs == { << <<[kind |-> 1, o |-> 1, d |-> 2]>>, ns >> : ns \in HydroNodeInputs }

InitHydro == \E x \in HydroInputs : Start(x, NoRegions)

SpecHydro == InitHydro /\ [][Next]_vars

-----------------------------------------------------------------------------
(* Runs with a refinement updateTransporters has no class for: solar plants *)
(* and loads at the first site, a pipeline whose product set_fuel maps to  *)
(* 'solar', and at most one transmission line before it                    *)

SolarNodeRecs == [ kind : { k \in DOMAIN NodeKinds :
                               NodeKinds[k].nodeType \in {"LoadC", "GenS"} },
                   xy : NodeXY, state : {NoAttr}, iso : {NoAttr} ]

SolarNodeInputs ==
    UNION { { ns \in [ 1..n -> SolarNodeRecs ] :
                  \A i, j \in 1..n :
                      i < j => StackRank(ns[i].kind) <= StackRank(ns[j].kind) /\ ns[i].xy # ns[j].xy } :
            n \in 1..MaxNodes }

SolarLineInputs ==
    { <<[kind |-> 3, o |-> 1, d |-> 2]>> }
    \cup { <<[kind |-> 1, o |-> o, d |-> d], [kind |-> 3, o |-> 1, d |-> 3]>> :
             o \in 1..2, d \in 2..3 }

SolarInputs == SolarLineInputs \X SolarNodeInputs

InitSolar == \E x \in SolarInputs : Start(x, NoRegions)

SpecSolar == InitSolar /\ [][Next]_vars

-----------------------------------------------------------------------------
(* Runs on a chain of points less than eps1 apart: two transmission lines   *)
(* leaving the sites 0.002 before and after site 1, the second of which may *)
(* end in site 1, and up to MaxNodes loads 0.001 from site 1                *)

ChainXY == { <<SiteXY(1)[1] + o[1], SiteXY(1)[2] + o[2]>> : o \in { <<-10, 0>>, <<10, 0>>, <<0, 10>> } }

ChainNodeInputs ==
    UNION { { ns \in [ 1..n -> [ kind : {2}, xy : ChainXY, state : {NoAttr}, iso : {NoAttr} ] ] :
                  \A i, j \in 1..n : i < j => ns[i].xy # ns[j].xy } :
            n \in 1..MaxNodes }

ChainLineInputs ==
    { <<[kind |-> 1, o |-> o1, d |-> 2], [kind |-> 1, o |-> o2, d |-> d2]>> :
          o1 \in (NumSites + 1)..(NumSites + 2), o2 \in (NumSites + 1)..(NumSites + 2), d2 \in {1, 3} }

ChainInputs == ChainLineInputs \X ChainNodeInputs

InitChain == \E x \in ChainInputs : Start(x, NoRegions)

SpecChain == InitChain /\ [][Next]_vars

-----------------------------------------------------------------------------
(* Runs on power plants that share clusters in two columns: a transmission  *)
(* line leaving site 1, a gas pipeline leaving the site 0.002 after it, and *)
(* up to MaxEntities gas-fired and hydro plants within eps2 of one or both  *)
(* of these endpoints                                                       *)

MergeXY == { <<SiteXY(1)[1] + o[1], SiteXY(1)[2] + o[2]>> : o \in { <<0, 0>>, <<60, 80>>, <<160, 0>> } }

MergeNodeInputs ==
    UNION { { ns \in [ 1..n -> [ kind : { k \in DOMAIN NodeKinds :
                                              /\ NodeKinds[k].nodeType = "GenC"
                                              /\ NodeKinds[k].fuelType \in { <<PGAS>>, <<WATER>> } },
                                   xy : MergeXY, state : {NoAttr}, iso : {NoAttr} ] ] :
                  \A i, j \in 1..n : i < j => ns[i].kind <= ns[j].kind /\ ns[i].xy # ns[j].xy } :
            n \in 1..MaxEntities }

MergeInputs ==
    { << <<[kind |-> 1, o |-> 1, d |-> 2], [kind |-> 2, o |-> NumSites + 2, d |-> 3]>>, ns >> :
          ns \in MergeNodeInputs }

InitMerge == \E x \in MergeInputs : Start(x, NoRegions)

SpecMerge == InitMerge /\ [][Next]_vars

-----------------------------------------------------------------------------
(* Vocabulary of the properties                                             *)

\* positions of the point table holding resource index r
RowsOf(r) == { p \in DOMAIN ptsRow : ptsRow[p] = r }

\* the point-rows (positions) of cluster c that are transporter endpoints, and the
\* positions in the node list of the buffers that have a point-row in cluster c
EndpointsIn(c) == { p \in DOMAIN clusters : clusters[p] = c /\ ptsRow[p] < 2 * Len(lines) }
BuffersIn(c) == { ptsRow[p] - 2 * Len(lines) + 1 :
                      p \in { q \in DOMAIN clusters : clusters[q] = c /\ ptsRow[q] >= 2 * Len(lines) } }
ClusterIds == Range(clusters) \ { None }

\* the stages of reviseAMES, by the step that has just returned
AfterUpdateTransporters == pc = "deleteIsoNodes"
AfterDeleteIsoNodes == pc = "reviseCoords"
AfterReviseCoords == pc = "condenseClusterBuffers"
AfterCondense == pc = "joinLineSegs"
AfterJoinLineSegs == pc = "addIndBuffers"
AfterAddIndBuffers == pc = "setNodeStates"

RowsInRange == \A p \in DOMAIN ptsRow : ptsRow[p] >= 0 /\ ptsRow[p] < 2 * Len(lines) + Len(nodes)
EveryBufferHasRow == \A j \in DOMAIN nodes : RowsOf(2 * Len(lines) + j - 1) # {}
EndpointRowsByColumn ==
    \A t \in DOMAIN lines : \A end \in {0, 1} :
        /\ Cardinality(RowsOf(2 * (t - 1) + end)) = 1
        /\ \A p \in RowsOf(2 * (t - 1) + end) :
               /\ refinements[ptsCol[p]] = lines[t].refinement[1]
               /\ lines[t].clust_origin # None =>
                      clusters[p] = IF end = 0 THEN lines[t].clust_origin ELSE lines[t].clust_dest
BufferRowsByColumn ==
    \A p \in DOMAIN ptsRow :
        ptsRow[p] >= 2 * Len(lines) =>
            refinements[ptsCol[p]] \in Range(nodes[ptsRow[p] - 2 * Len(lines) + 1].refinement)
EndpointRowsByCluster ==
    \A t \in DOMAIN lines : \A end \in {0, 1} :
        /\ Cardinality(RowsOf(2 * (t - 1) + end)) = 1
        /\ \A p \in RowsOf(2 * (t - 1) + end) :
               clusters[p] = IF end = 0 THEN lines[t].clust_origin ELSE lines[t].clust_dest
BufferRowsByCluster ==
    \A p \in DOMAIN ptsRow :
        ptsRow[p] >= 2 * Len(lines) =>
            clusters[p] \in Range(nodes[ptsRow[p] - 2 * Len(lines) + 1].cluster)
\* C1 -- positional contract. After updateTransporters, deleteIsoNodes,
\* reviseCoords, condenseClusterBuffers, joinLineSegs and addIndBuffers: the
\* transporter at position t owns exactly the point-rows with resource index 2t
\* (origin) and 2t+1 (destination), a resource index i >= 2*|lines| names the
\* buffer at position i - 2*|lines|, every buffer has a point-row, and no index
\* lies outside 0 .. 2*|lines| + |nodes| - 1.  Ownership is read off the column
\* of the row while the table still has columns, and off the cluster ids once
\* reviseCoords has copied them into the entities.
PositionalContract ==
    /\ (AfterUpdateTransporters \/ AfterDeleteIsoNodes) =>
           RowsInRange /\ EveryBufferHasRow /\ EndpointRowsByColumn /\ BufferRowsByColumn
    /\ (AfterReviseCoords \/ AfterCondense \/ AfterJoinLineSegs \/ AfterAddIndBuffers) =>
           RowsInRange /\ EveryBufferHasRow /\ EndpointRowsByCluster /\ BufferRowsByCluster

\* a fusion has removed a transporter stored in front of a buffer, whose rows moved down
C1_Witness ==
    /\ AfterJoinLineSegs
    /\ joined > 0
    /\ nodes # <<>>
    /\ \E p \in DOMAIN ptsRow : ptsRow[p] >= 2 * Len(lines) /\ hist.row[p + 2 * joined] = ptsRow[p] + 2 * joined

AfterSetPipeODNames2 == pc = "done"

\* the endpoint record e is the nodeName of a buffer of the node list
NamesBuffer(e) == e.isName /\ \E j \in DOMAIN nodes : nodes[j].nodeName = e.name

\* C2 -- after setPipeODNames2 (radial connectors included) the fBus and the
\* tBus of every transporter of the line list are each the nodeName of a buffer
\* of the revised node list; none is still a coordinate tuple.
EndpointsNamed ==
    AfterSetPipeODNames2 =>
        \A i \in DOMAIN lines : NamesBuffer(lines[i].fBus) /\ NamesBuffer(lines[i].tBus)

\* an ingested transporter ends in a multi-buffer cluster and a radial connector
\* between the primary and the other member buffer has been emitted
C2_Witness ==
    /\ AfterSetPipeODNames2
    /\ radial # <<>>
    /\ \E i, j \in DOMAIN lines :
          /\ lines[i].clust_origin # lines[i].clust_dest
          /\ lines[j].clust_origin = lines[j].clust_dest
          /\ lines[j].clust_origin \in { lines[i].clust_origin, lines[i].clust_dest }
          /\ lines[j].fBus # lines[j].tBus

\* the stages from the return of reviseCoords to the start of setNodeStates
FromReviseCoordsToNaming ==
    pc \in { "condenseClusterBuffers", "joinLineSegs", "joinLineSegsLoop", "addIndBuffers", "setNodeStates" }

\* C3 -- from the return of reviseCoords until setNodeStates starts, no
\* transporter of the line list has clust_origin equal to clust_dest: reviseCoords
\* has removed the self-looping ones and no fusion of joinLineSegs creates one.
NoSelfLoop ==
    FromReviseCoordsToNaming =>
        \A i \in DOMAIN lines : lines[i].clust_origin # lines[i].clust_dest

\* joinLineSegs has fused two transporters of a ring and has refused the fusion
\* that would have closed the remaining two into a loop
C3_Witness ==
    /\ AfterJoinLineSegs
    /\ joined > 0
    /\ \E i, j \in DOMAIN lines :
          /\ i # j
          /\ lines[i].clust_origin = lines[j].clust_dest
          /\ lines[i].clust_dest = lines[j].clust_origin
          /\ EndpointsIn(lines[i].clust_origin) # {} /\ BuffersIn(lines[i].clust_origin) = {}

\* C4 -- after deleteIsoNodes, and still after reviseCoords, every point-row left
\* in the point table has a non-null cluster id.
NoNullCluster ==
    (AfterDeleteIsoNodes \/ AfterReviseCoords) =>
        \A p \in DOMAIN clusters : clusters[p] # None

\* a generator serving two refinements has lost the row of the refinement no
\* transporter carries nearby and has kept the clustered one
C4_Witness ==
    /\ AfterReviseCoords
    /\ \E j \in DOMAIN nodes :
          /\ nodes[j].nodeType = "GenC"
          /\ Len(nodes[j].refinement) = 2
          /\ Cardinality(RowsOf(2 * Len(lines) + j - 1)) = 1

\* the transporters (as 0-based positions of the line list) with an endpoint in cluster c
TransportersAt(c) == { ptsRow[p] \div 2 : p \in EndpointsIn(c) }

\* cluster c is a passthrough: exactly two endpoints and no buffer
Passthrough(c) == Cardinality(EndpointsIn(c)) = 2 /\ BuffersIn(c) = {}

\* the transporters at positions t and u (0-based) join the same two clusters
SameSpan(t, u) ==
    { lines[t + 1].clust_origin, lines[t + 1].clust_dest } =
    { lines[u + 1].clust_origin, lines[u + 1].clust_dest }

\* C5 -- after joinLineSegs every cluster with exactly two transporter endpoints
\* and no buffer has both endpoints on the same transporter.
NoPassthrough ==
    AfterJoinLineSegs =>
        \A c \in ClusterIds : Passthrough(c) => Cardinality(TransportersAt(c)) = 1

\* C5, amended -- after joinLineSegs the two endpoints of a cluster with exactly
\* two endpoints and no buffer belong to two transporters that join the same two
\* clusters, so that fusing them would create a self-loop.
NoFusablePassthrough ==
    AfterJoinLineSegs =>
        \A c \in ClusterIds : Passthrough(c) =>
            \A t, u \in TransportersAt(c) : SameSpan(t, u)

\* a ring of three has been fused once and its last two transporters still meet
\* in two passthrough clusters
C5_Witness ==
    /\ AfterJoinLineSegs
    /\ joined > 0
    /\ \E c \in ClusterIds : Passthrough(c) /\ Cardinality(TransportersAt(c)) = 2

\* the table on entry to joinLineSegs: endpoint rows and buffer rows of cluster c
EntryEndpointsIn(c) ==
    { p \in DOMAIN hist.clusters : hist.clusters[p] = c /\ hist.row[p] < 2 * Len(hist.lines) }
EntryBuffersIn(c) ==
    { p \in DOMAIN hist.clusters : hist.clusters[p] = c /\ hist.row[p] >= 2 * Len(hist.lines) }
EntryPassthrough(c) == Cardinality(EntryEndpointsIn(c)) = 2 /\ EntryBuffersIn(c) = {}

\* the two clusters joined by the transporter at position i on entry
EntrySpan(i) == { hist.lines[i].clust_origin, hist.lines[i].clust_dest }

\* orderings of two or more distinct transporters of the entry line list
EntryPaths ==
    { s \in UNION { [1..n -> DOMAIN hist.lines] : n \in 2..Len(hist.lines) } :
        \A i, j \in DOMAIN s : i # j => s[i] # s[j] }

\* the clusters touched by the transporters of s, and those touched by one only
ClustersOf(s) == UNION { EntrySpan(s[i]) : i \in DOMAIN s }
Terminals(s) == { c \in ClustersOf(s) : Cardinality({ i \in DOMAIN s : c \in EntrySpan(s[i]) }) = 1 }

\* s lists, end to end, the transporters of a chain: consecutive ones meet in a
\* passthrough cluster, the chain is open (k + 1 distinct clusters), and it ends at
\* both sides in a cluster that is not a passthrough
IsChain(s) ==
    /\ \A i \in 1..(Len(s) - 1) :
          \E c \in EntrySpan(s[i]) \cap EntrySpan(s[i + 1]) :
             EntrySpan(s[i]) \cap EntrySpan(s[i + 1]) = {c} /\ EntryPassthrough(c)
    /\ Cardinality(ClustersOf(s)) = Len(s) + 1
    /\ \A c \in Terminals(s) : ~ EntryPassthrough(c)

\* the positions of the current line list holding a transporter of s
Survivors(s) == { i \in DOMAIN lines : \E j \in DOMAIN s : lines[i].lineName = hist.lines[s[j]].lineName }

\* C6 -- a chain of k >= 2 transporters, whatever their storage order and
\* orientation, whose internal clusters each hold exactly two endpoints and no
\* buffer, is reduced by joinLineSegs to exactly one transporter, which joins the
\* two terminal clusters of the chain; the other k - 1 are removed.
ChainCollapses ==
    AfterJoinLineSegs =>
        \A s \in EntryPaths : IsChain(s) =>
            /\ Cardinality(Survivors(s)) = 1
            /\ \A i \in Survivors(s) : { lines[i].clust_origin, lines[i].clust_dest } = Terminals(s)
            /\ Len(hist.lines) - Len(lines) >= Len(s) - 1

\* a chain of three stored out of order, its middle transporter reversed, has
\* been fused into one transporter
C6_Witness ==
    /\ AfterJoinLineSegs
    /\ joined = 2
    /\ \E s \in EntryPaths :
          /\ IsChain(s) /\ Len(s) = 3
          /\ s[1] > s[2]
          /\ hist.lines[s[1]].clust_dest = hist.lines[s[2]].clust_dest

\* C7 -- after addIndBuffers every cluster with at least three transporter
\* endpoints holds at least one buffer, whatever refinements the transporters
\* meeting there carry.
JunctionHasBuffer ==
    AfterAddIndBuffers =>
        \A c \in ClusterIds : Cardinality(EndpointsIn(c)) >= 3 => BuffersIn(c) # {}

\* three crude pipelines of a product no branch of addIndBuffers recognises meet
\* in one cluster, which addIndBuffers has left without a buffer
C7_Witness ==
    /\ AfterAddIndBuffers
    /\ \E c \in ClusterIds :
          /\ Cardinality(EndpointsIn(c)) >= 3
          /\ BuffersIn(c) = {}
          /\ \A p \in EndpointsIn(c) : IndBufferClass(Range(lines[ptsRow[p] \div 2 + 1].refinement)) = "unhandled"

\* the priority of node type t for a naming transporter of type lineType; a type
\* the order does not list ranks 0, and "any other" on a gas pipeline ranks 1
Rank(lineType, t) ==
    IF lineType = "ElecLine"
    THEN IF t = "LoadC" THEN 4 ELSE IF t = "LoadS" THEN 3 ELSE IF t = "GenC" THEN 2
         ELSE IF t = "GenS" THEN 1 ELSE 0
    ELSE IF lineType = "NGPipe"
    THEN IF t = "NGReceiptDelivery" THEN 4 ELSE IF t = "NGProcessor" THEN 3
         ELSE IF t = "compressor" THEN 2 ELSE 1
    ELSE IF lineType \in { "OilRefPipe", "OilCrudePipe" }
    THEN IF t = "OilPort" THEN 3 ELSE IF t = "OilTerminal" THEN 2
         ELSE IF t = "OilRefinery" THEN 1 ELSE 0
    ELSE IF lineType = "CoalRailroad"
    THEN IF t = "CoalDock" THEN 2 ELSE IF t = "CoalSource" THEN 1 ELSE 0
    ELSE 0

\* the positions in the node list of the buffers of cluster c, read off the table
\* setPipeODNames2 was given (the connectors it appends have no rows)
MembersOf(c) ==
    { ptsRow[p] - 2 * (Len(hist.lines) - joined) + 1 :
          p \in { q \in DOMAIN clusters :
                    clusters[q] = c /\ ptsRow[q] >= 2 * (Len(hist.lines) - joined) } }

\* C8 -- the primary findClusterPrimary picks for a multi-buffer cluster is a
\* member whose node type ranks highest in the priority order of the naming
\* transporter's line type.
PrimaryRanksHighest ==
    AfterSetPipeODNames2 =>
        \A e \in Range(radial) :
            \A j \in MembersOf(e.val[2]) :
                Rank(e.val[1], nodes[e.key + 1].nodeType) >= Rank(e.val[1], nodes[j].nodeType)

\* a gas pipeline ends in a cluster holding a compressor and a terminal, and the
\* terminal has been made the primary
C8_Witness ==
    /\ AfterSetPipeODNames2
    /\ \E e \in Range(radial) :
          /\ e.val[1] = "NGPipe"
          /\ nodes[e.key + 1].nodeType = "terminal"
          /\ \E j \in MembersOf(e.val[2]) : nodes[j].nodeType = "compressor"

\* C9 -- after condenseClusterBuffers no cluster holds two distinct buffers of
\* the same node type: a buffer found in a cluster after another of its type has
\* been merged into that one and deleted from the node list and the point table.
OneBufferPerType ==
    AfterCondense =>
        \A c \in ClusterIds : \A i, j \in BuffersIn(c) :
            nodes[i].nodeType = nodes[j].nodeType => i = j

\* a cluster formed of one endpoint and two buffers (its centroid averages three
\* points) is left with the endpoint and the first of the two buffers; no
\* transporter was removed
C9_Witness ==
    /\ AfterCondense
    /\ Len(lines) = 1 /\ Len(nodes) = 1
    /\ \E c \in ClusterIds :
          /\ Cardinality(EndpointsIn(c)) = 1
          /\ BuffersIn(c) = {1}
          /\ nodes[1].gps[3] = 3
          /\ nodes[1].nodeName[2] = 1

\* the refinements carried by the transporters with an endpoint in cluster c, and
\* those held by the buffers of cluster c (a junction buffer holds attrib_ref)
CarriedAt(c) == UNION { Range(lines[ptsRow[p] \div 2 + 1].refinement) : p \in EndpointsIn(c) }
HeldAt(c) == UNION { Range(nodes[j].refinement) \cup nodes[j].attrib_ref : j \in BuffersIn(c) }

\* C10 -- after addIndBuffers, in every cluster each refinement carried by a
\* transporter with an endpoint in the cluster is held by at least one buffer of
\* the cluster.
CarriedRefinementsHeld ==
    AfterAddIndBuffers =>
        \A c \in ClusterIds : CarriedAt(c) \subseteq HeldAt(c)

\* a gas pipeline, which carries raw gas, ends in a cluster whose only buffer is a
\* terminal, which holds processed gas and syngas
C10_Witness ==
    /\ AfterAddIndBuffers
    /\ \E c \in ClusterIds :
          /\ \E p \in EndpointsIn(c) : lines[ptsRow[p] \div 2 + 1].type = "NGPipe"
          /\ BuffersIn(c) # {}
          /\ \A j \in BuffersIn(c) : nodes[j].nodeType = "terminal"
          /\ RGAS \in CarriedAt(c) \ HeldAt(c)

-----------------------------------------------------------------------------
\* the buffer carrying the name of an end of a transporter
BufferNamed(e) == nodes[CHOOSE j \in DOMAIN nodes : nodes[j].nodeName = e.name]

NoRepetition(s) == \A i, j \in DOMAIN s : s[i] = s[j] => i = j

\* C11 -- after the naming stage the controller list of every transporter of
\* the output (ingested, synthetic or radial connector) holds exactly the
\* controllers of the buffer named as its origin and of the buffer named as
\* its destination, each of them once
ControllersAreUnion ==
    AfterSetPipeODNames2 =>
        \A i \in DOMAIN lines :
            /\ NamesBuffer(lines[i].fBus) /\ NamesBuffer(lines[i].tBus)
            /\ Range(lines[i].controller) =
                   Range(BufferNamed(lines[i].fBus).controller) \cup Range(BufferNamed(lines[i].tBus).controller)
            /\ NoRepetition(lines[i].controller)

\* a radial connector between two buffers that share one controller and hold
\* one more each, next to a transporter between two clusters with controllers
C11_Witness ==
    /\ AfterSetPipeODNames2
    /\ \E i \in DOMAIN lines :
           /\ lines[i].clust_origin = lines[i].clust_dest
           /\ lines[i].fBus # lines[i].tBus
           /\ Range(BufferNamed(lines[i].fBus).controller) # Range(BufferNamed(lines[i].tBus).controller)
           /\ Range(BufferNamed(lines[i].fBus).controller) \cap Range(BufferNamed(lines[i].tBus).controller) # {}
           /\ Len(lines[i].controller) >= 3
    /\ \E i \in DOMAIN lines :
           /\ lines[i].clust_origin # lines[i].clust_dest
           /\ BufferNamed(lines[i].fBus).controller # <<>>
           /\ BufferNamed(lines[i].tBus).controller # <<>>

-----------------------------------------------------------------------------
AfterSetNodeStates == pc = "setPipeODNames2" /\ regions.states # <<>>

\* C12 -- after setNodeStates no buffer's controller list holds the same
\* label twice, whatever the pre-declared state, the pre-declared ISO and the
\* labels of the polygons are
NoDuplicateController ==
    AfterSetNodeStates => \A j \in DOMAIN nodes : NoRepetition(nodes[j].controller)

\* a buffer attributed from a pre-declared state and a pre-declared ISO next to
\* a buffer attributed from the polygons
C12_Witness ==
    /\ AfterSetNodeStates
    /\ \E j \in DOMAIN nodes :
           /\ nodes[j].state \notin {NoAttr, NoLabel}
           /\ nodes[j].iso \notin {NoAttr, NoLabel}
           /\ Len(nodes[j].controller) = 2
    /\ \E j \in DOMAIN nodes :
           /\ nodes[j].state \in {NoAttr, NoLabel}
           /\ nodes[j].iso = NoLabel
           /\ Len(nodes[j].controller) = 2

-----------------------------------------------------------------------------
\* the stages of a run whose input had no transporter: the line list is empty,
\* after clustering every point-row is unclustered and nothing is queued, and
\* from the return of deleteIsoNodes on there is no buffer and no point-row
NoTransporterRun ==
    /\ lines = <<>>
    /\ pc # "crashed"
    /\ pc \in {"updateTransporters", "deleteIsoNodes"} =>
           /\ \A i \in DOMAIN clusters : clusters[i] = None
           /\ resourcesToAdd = <<>>
    /\ pc \notin {"snapEdges2GridRef", "updateTransporters", "deleteIsoNodes"} =>
           /\ nodes = <<>>
           /\ ptsRow = <<>>

\* C13 -- when the input has no transporters, every buffer point-row stays
\* unclustered in the clustering stage, nothing is queued for the synthetic
\* transporters, deleteIsoNodes removes every buffer, and the run ends with no
\* transporter and no buffer
NoTransportersNoOutput ==
    [][ (lines = <<>> /\ (pc = "snapEdges2GridRef" \/ NoTransporterRun)) => NoTransporterRun' ]_vars

\* deleteIsoNodes has returned on an input of no transporter whose buffers
\* included a generator (its fuel is in the refinement list)
C13_Witness ==
    /\ AfterDeleteIsoNodes
    /\ lines = <<>>
    /\ nodes = <<>>
    /\ refinements[2] = PGAS

-----------------------------------------------------------------------------
\* the positions of the connectors linkClusterBuffers appended for cluster c
\* from the buffer at position p to the buffer at position n of the node list
ConnectorsOf(c, p, n) ==
    { i \in DOMAIN lines :
          /\ i > Len(hist.lines) - joined
          /\ lines[i].clust_origin = c /\ lines[i].clust_dest = c
          /\ lines[i].fBus = [isName |-> TRUE, name |-> nodes[p].nodeName]
          /\ lines[i].tBus = [isName |-> TRUE, name |-> nodes[n].nodeName] }

\* the clusters with more than one member buffer at which a primary was selected
LinkedClusters == { e \in Range(clusterPrimary) : Cardinality(MembersOf(e.key)) > 1 }

\* C14 -- for every cluster with more than one member buffer at which a primary
\* was selected, the line list holds exactly one connector of that cluster from
\* the primary to each non-primary member buffer, also when one buffer is the
\* primary of several clusters
OneConnectorPerMember ==
    AfterSetPipeODNames2 =>
        \A e \in LinkedClusters :
            \A n \in MembersOf(e.key) \ {e.val + 1} :
                Cardinality(ConnectorsOf(e.key, e.val + 1, n)) = 1

\* one buffer is the primary of two clusters that hold another buffer each
C14_Witness ==
    /\ AfterSetPipeODNames2
    /\ \E e, f \in LinkedClusters : e.key # f.key /\ e.val = f.val

-----------------------------------------------------------------------------
\* the positions of the radial connectors in the line list
Connectors == { i \in DOMAIN lines : i > Len(hist.lines) - joined }

\* C15 -- every radial connector carries exactly the refinements its primary
\* and its non-primary buffer have in common, and there is no connector for a
\* pair of buffers with no common refinement
ConnectorCarriesIntersection ==
    AfterSetPipeODNames2 =>
        \A i \in Connectors :
            /\ Range(lines[i].refinement) =
                   Range(BufferNamed(lines[i].fBus).refinement) \cap Range(BufferNamed(lines[i].tBus).refinement)
            /\ lines[i].refinement # <<>>

\* a connector between a primary and a buffer that have two refinements in common
C15_Witness ==
    /\ AfterSetPipeODNames2
    /\ \E i \in Connectors :
           Cardinality(Range(BufferNamed(lines[i].fBus).refinement)
                       \cap Range(BufferNamed(lines[i].tBus).refinement)) >= 2

\* an end of line i whose cluster holds no buffer, or several of which
\* findClusterPrimary picks none: clusterPrimary[c] cannot be a buffer
Unnamable(i, end) ==
    LET c == IF end = 0 THEN lines[i].clust_origin ELSE lines[i].clust_dest
        resources == ClusterBuffers(Len(lines), ptsRow, clusters, c)
    IN  \/ Len(resources) = 0
        \/ Len(resources) > 1 /\ findClusterPrimary(lines[i].type, nodes, resources) = None

\* C16 -- setPipeODNames2 always completes, and every transporter left in the
\* line list afterwards has a buffer name at both ends (a transporter whose
\* end cannot be named is removed, never kept unnamed, and never stops the
\* naming of the others).
UnnamedDiscarded ==
    [][ pc = "setPipeODNames2"
        => /\ pc' = "done"
           /\ \A i \in DOMAIN lines' : lines'[i].fBus.isName /\ lines'[i].tBus.isName ]_vars

C16_Witness ==
    /\ pc = "setPipeODNames2"
    /\ \E i \in DOMAIN lines : \E end \in {0, 1} : Unnamable(i, end)

\* positions in lines of the transporters updateTransporters has just appended
Synthetic == { i \in DOMAIN lines : i > Len(lines) - Len(resourcesToAdd) }

\* C17 -- every synthetic transporter appended by updateTransporters carries
\* the type tag of an ingested transporter of its refinement: electric power
\* -> ElecLine; processed gas, syngas, raw gas -> NGPipe; processed oil ->
\* OilRefPipe; crude oil, liquid biomass feedstock, water energy ->
\* OilCrudePipe; coal -> CoalRailroad; other, solid biomass feedstock,
\* uranium -> otherPipe.
SyntheticTagged ==
    pc = "deleteIsoNodes"
    => \A i \in Synthetic :
         LET ref == lines[i].refinement[1]
         IN  lines[i].type = IF ref = ELEC THEN "ElecLine"
                             ELSE IF ref \in {PGAS, SYNGAS, RGAS} THEN "NGPipe"
                             ELSE IF ref = POIL THEN "OilRefPipe"
                             ELSE IF ref \in {COIL, LBIO, WATER} THEN "OilCrudePipe"
                             ELSE IF ref = COAL THEN "CoalRailroad"
                             ELSE "otherPipe"

C17_Witness ==
    /\ pc = "deleteIsoNodes"
    /\ \E i \in Synthetic : lines[i].refinement = <<POIL>>

\* the queue entries whose refinement updateTransporters has a class for
Recognised ==
    { i \in DOMAIN resourcesToAdd : SynthKind(refinements[ptsCol[resourcesToAdd[i][2]]]).known }

\* C18 -- updateTransporters appends one transporter and two point-rows for
\* every queue entry of a recognised refinement and nothing for an entry of
\* an unrecognised one: it completes, the line list grows by the number of
\* recognised entries, the point table by twice that number, and no
\* transporter appears twice in the line list.
UnrecognisedSkipped ==
    [][ pc = "updateTransporters"
        => /\ pc' = "deleteIsoNodes"
           /\ Len(lines') = Len(lines) + Cardinality(Recognised)
           /\ Len(ptsRow') = Len(ptsRow) + 2 * Cardinality(Recognised)
           /\ \A i, j \in DOMAIN lines' : lines'[i].lineName = lines'[j].lineName => i = j ]_vars

C18_Witness ==
    /\ pc = "updateTransporters"
    /\ Recognised # {}
    /\ Recognised # DOMAIN resourcesToAdd

\* the endpoint entries of the column of entry k2, and the nearest of them
ColumnEnds(k2) == { i \in 1..(2 * Len(lines)) : ptsCol[i] = ptsCol[k2] }
NearestEnds(k2) ==
    { i \in ColumnEnds(k2) :
          \A j \in ColumnEnds(k2) : Dist2(ptsXY[k2], ptsXY[i]) <= Dist2(ptsXY[k2], ptsXY[j]) }
Queued(k2) == { i \in DOMAIN resourcesToAdd' : resourcesToAdd'[i][1] = k2 }

RowEntries(r) == SortedSeq({ i \in 1..(2 * Len(lines)) : ptsRow[i] = r })

\* the clusters when the primary pass reaches endpoint row r
PrimaryAtRow(r) ==
    Fold(LAMBDA a, q : PrimaryRow(ptsRow, ptsCol, ptsXY, 2 * Len(lines), a, q),
         [ cl |-> [ i \in DOMAIN ptsRow |-> None ], clust |-> 0, add |-> <<>> ],
         [ i \in 1..r |-> i - 1 ])

\* the clusters just before the primary pass handles the n-th entry of row r
PrimaryBefore(r, n) ==
    Fold(LAMBDA a, k : PrimaryPoint(ptsCol, ptsXY, a, k), PrimaryAtRow(r),
         SubSeq(RowEntries(r), 1, n - 1))

\* the eps1-neighbourhood of entry k2 in its column
Neighbourhood(k2) ==
    { i \in DOMAIN ptsCol : ptsCol[i] = ptsCol[k2] /\ Dist2(ptsXY[k2], ptsXY[i]) <= eps1sq }

\* the clustered entries of the neighbourhood of k2 that are nearest to k2
NearestClustered(cl, k2) ==
    LET C == { i \in Neighbourhood(k2) : cl[i] # None }
    IN  { i \in C : \A j \in C : Dist2(ptsXY[k2], ptsXY[i]) <= Dist2(ptsXY[k2], ptsXY[j]) }

\* C20 -- primary pass of snapEdges2GridRef: when the eps1-neighbourhood of
\* the endpoint entry being handled holds entries that already have a
\* cluster, every unclustered entry of the neighbourhood gets the cluster of
\* the clustered entry nearest to the endpoint, the lowest cluster id among
\* the nearest ones at equal distance.
ExtendNearestLowest ==
    [][ pc = "snapEdges2GridRef"
        => \A r \in 0..(2 * Len(lines) - 1) :
             (\A i \in Range(RowEntries(r)) : PrimaryAtRow(r).cl[i] = None)
             => \A n \in DOMAIN RowEntries(r) :
                  LET k2 == RowEntries(r)[n]
                      cl == PrimaryBefore(r, n).cl
                      best == NearestClustered(cl, k2)
                  IN  best # {}
                      => \A i \in Neighbourhood(k2) :
                           cl[i] = None => clusters'[i] = Min({ cl[j] : j \in best }) ]_vars

\* the pass has run on an endpoint that two buffers of its column, of
\* different clusters, are equally near to (within eps1)
C20_Witness ==
    /\ pc = "updateTransporters"
    /\ \E k \in 1..(2 * Len(lines)) : \E i, j \in (2 * Len(lines) + 1)..Len(ptsRow) :
          LET l == lines[(ptsRow[k] \div 2) + 1]
              e == IF ptsRow[k] % 2 = 0 THEN l.fBus.gps ELSE l.tBus.gps
              gi == nodes[ptsRow[i] - 2 * Len(lines) + 1].gps
              gj == nodes[ptsRow[j] - 2 * Len(lines) + 1].gps
          IN  /\ ptsCol[i] = ptsCol[k] /\ ptsCol[j] = ptsCol[k]
              /\ Dist2(e, gi) = Dist2(e, gj)
              /\ Dist2(e, gi) <= eps1sq
              /\ clusters[i] # clusters[j]
              /\ clusters[k] \in {clusters[i], clusters[j]}

\* the entries of the buffer at position j of the node list
NodeRows(j) == { p \in DOMAIN ptsRow : ptsRow[p] = 2 * Len(lines) + j - 1 }
\* connected: some entry of the buffer has a cluster
Connected(j) == \E p \in NodeRows(j) : clusters[p] # None
\* position of buffer j among the connected buffers
ConnectedRank(j) == Cardinality({ i \in 1..j : Connected(i) })
\* the (column, cluster) pairs of the entries of buffer j after the step
NodeRowsAfter(j) ==
    { <<ptsCol'[p], clusters'[p]>> : p \in { q \in DOMAIN ptsRow' : ptsRow'[q] = 2 * Len(lines) + j - 1 } }

\* deleteIsoNodes keeps exactly the connected buffers, in order
KeepsConnected ==
    /\ Len(nodes') = Cardinality({ j \in DOMAIN nodes : Connected(j) })
    /\ \A j \in DOMAIN nodes : Connected(j) => nodes'[ConnectedRank(j)] = nodes[j]

\* C21 (as stated) -- deleteIsoNodes deletes a buffer only when none of its
\* entries has a cluster, and a buffer with a clustered entry is kept with
\* all of its entries.
IsoKeepsAllRows ==
    [][ pc = "deleteIsoNodes"
        => /\ KeepsConnected
           /\ \A j \in DOMAIN nodes :
                Connected(j)
                => NodeRowsAfter(ConnectedRank(j)) = { <<ptsCol[p], clusters[p]>> : p \in NodeRows(j) } ]_vars

\* C21 (amended) -- deleteIsoNodes deletes a buffer only when none of its
\* entries has a cluster; a buffer with a clustered entry is kept with its
\* clustered entries, and its unclustered entries are removed.
IsoKeepsClusteredRows ==
    [][ pc = "deleteIsoNodes"
        => /\ KeepsConnected
           /\ \A j \in DOMAIN nodes :
                Connected(j)
                => NodeRowsAfter(ConnectedRank(j))
                   = { <<ptsCol[p], clusters[p]>> : p \in { q \in NodeRows(j) : clusters[q] # None } } ]_vars

\* deleteIsoNodes has kept a buffer that had an unclustered entry: it has
\* fewer entries than refinements
C21_Witness ==
    /\ pc = "reviseCoords"
    /\ \E j \in DOMAIN nodes :
          /\ NodeRows(j) # {}
          /\ Cardinality(NodeRows(j)) < Cardinality(Range(nodes[j].refinement))

\* the clusters of the entries of buffer j that still hold an endpoint of a
\* transporter after the step
AttachedClusters(j) ==
    { clusters[p] : p \in NodeRows(j) }
    \cap { clusters'[q] : q \in { i \in DOMAIN ptsRow' : ptsRow'[i] < 2 * Len(lines') } }

\* C22 -- re-scan of reviseCoords after self-loop removal: a buffer that has
\* an entry in a cluster still holding an endpoint of a surviving transporter
\* is kept, with as many entries as before; only a buffer all of whose
\* clusters have lost their endpoints is deleted.
RescanKeepsAttached ==
    [][ pc = "reviseCoords"
        => /\ pc' = "condenseClusterBuffers"
           /\ \A j \in DOMAIN nodes :
                AttachedClusters(j) # {}
                => \E i \in DOMAIN nodes' :
                     /\ nodes'[i].nodeName = nodes[j].nodeName
                     /\ Cardinality({ q \in DOMAIN ptsRow' : ptsRow'[q] = 2 * Len(lines') + i - 1 })
                        = Cardinality(NodeRows(j)) ]_vars

\* reviseCoords is about to run on a buffer with entries in two clusters, one
\* holding only the two endpoints of a self-loop, the other an endpoint of a
\* transporter that is no self-loop
C22_Witness ==
    /\ pc = "reviseCoords"
    /\ \E j \in DOMAIN nodes : \E p, q \in NodeRows(j) :
          /\ clusters[p] # clusters[q]
          /\ \A e \in 1..(2 * Len(lines)) :
                clusters[e] = clusters[p]
                => \E f \in 1..(2 * Len(lines)) :
                      f # e /\ ptsRow[f] \div 2 = ptsRow[e] \div 2 /\ clusters[f] = clusters[e]
          /\ \E e \in 1..(2 * Len(lines)) : clusters[e] = clusters[p]
          /\ \E e \in 1..(2 * Len(lines)) :
                /\ clusters[e] = clusters[q]
                /\ \E f \in 1..(2 * Len(lines)) :
                      ptsRow[f] \div 2 = ptsRow[e] \div 2 /\ ptsCol[f] = ptsCol[e] /\ clusters[f] # clusters[e]

\* the (fuel, capacity) pairs of a buffer, and those of all generators
FuelPairs(n) == { <<n.fuelType[i], n.cap[i]>> : i \in DOMAIN n.fuelType }
GeneratorPairs(ns) ==
    UNION { FuelPairs(ns[j]) : j \in { i \in DOMAIN ns : ns[i].nodeType \in {"GenC", "GenS"} } }

\* C23 -- merging of generators in condenseClusterBuffers: the prime's
\* (fuel, capacity) list grows by exactly the pairs of the duplicate it did
\* not hold, so no pair held by a generator before the step is lost (every
\* pair of a deleted duplicate is held by its prime) and no generator holds a
\* pair twice afterwards.
MergeKeepsFuelPairs ==
    [][ (pc = "condenseClusterBuffers" /\ pc' = "joinLineSegs")
        => /\ GeneratorPairs(nodes) \subseteq GeneratorPairs(nodes')
           /\ \A j \in DOMAIN nodes' :
                \A i, k \in DOMAIN nodes'[j].fuelType :
                    (nodes'[j].fuelType[i] = nodes'[j].fuelType[k] /\ nodes'[j].cap[i] = nodes'[j].cap[k])
                    => i = k ]_vars

\* a generator has gained a pair in a merge
C23_Witness ==
    /\ pc = "joinLineSegs"
    /\ \E j \in DOMAIN nodes : Len(nodes[j].fuelType) > 1

\* the junction buffers addIndBuffers has appended, as positions of the node list
IndBuffers == { j \in DOMAIN nodes : nodes[j].nodeName[1] = "IndBuffer" }

\* C24 -- after addIndBuffers every junction buffer stands in a cluster that
\* holds no other buffer and at least three transporter endpoints, and no
\* cluster holds two junction buffers; a buffer-less cluster with one or two
\* endpoints gets none.
JunctionOnlyAtThree ==
    pc = "setNodeStates"
    => \A j \in IndBuffers :
         \A c \in Range(nodes[j].cluster) :
             /\ BuffersIn(c) = {j}
             /\ Cardinality(EndpointsIn(c)) >= 3

\* addIndBuffers has appended a junction buffer
C24_Witness ==
    /\ pc = "setNodeStates"
    /\ \E j \in IndBuffers : \E c \in Range(nodes[j].cluster) : Cardinality(EndpointsIn(c)) < 3

\* C25 -- the coordinates of a junction buffer are the centroid that
\* getClustMidpointsRef computed for the cluster the buffer is inserted
\* into, whichever clusters have lost all their entries since.
JunctionAtCentroid ==
    pc = "setNodeStates"
    => \A j \in IndBuffers :
         \A c \in Range(nodes[j].cluster) : nodes[j].gps = clustCenters[c + 1]

\* a junction buffer has been inserted into a cluster while a cluster of
\* lower id has no entry left
C25_Witness ==
    /\ pc = "setNodeStates"
    /\ \E j \in IndBuffers : \E c \in Range(nodes[j].cluster) :
          \E d \in 0..(c - 1) : d \notin Range(clusters)

\* the cluster at the other end of the transporter at position t (0-based),
\* seen from its end in cluster c
FarEnd(t, c) ==
    IF lines[t + 1].clust_origin = c THEN lines[t + 1].clust_dest
                                     ELSE lines[t + 1].clust_origin

\* the transporters at positions t and u could be fused at cluster c: the cluster
\* has no buffer and exactly two endpoints, one of each, and the fused
\* transporter would not start where it ends
Fusable(t, u, c) ==
    /\ t # u
    /\ BuffersIn(c) = {}
    /\ { ptsRow[p] \div 2 : p \in EndpointsIn(c) } = {t, u}
    /\ Cardinality(EndpointsIn(c)) = 2
    /\ FarEnd(t, c) # FarEnd(u, c)

\* C26 -- when joinLineSegs returns no fusion is possible any more: no cluster
\* without a buffer holds exactly two endpoints of two distinct transporters
\* whose fusion would not create a self-loop, although the destination analysis
\* is skipped for a transporter whose origin analysis found a looping pair.
NoFusionLeft ==
    pc = "addIndBuffers"
    => \A c \in ClusterIds : \A t, u \in 0..(Len(lines) - 1) : ~ Fusable(t, u, c)

\* joinLineSegs has returned and left a transporter whose origin cluster it
\* shares with a looping partner, so that its destination was never analysed
C26_Witness ==
    /\ pc = "addIndBuffers"
    /\ \E t, u \in 0..(Len(lines) - 1) :
          /\ t # u
          /\ Passthrough(lines[t + 1].clust_origin)
          /\ TransportersAt(lines[t + 1].clust_origin) = {t, u}
          /\ SameSpan(t, u)
          /\ lines[t + 1].clust_dest # lines[t + 1].clust_origin

\* the clusters that hold an endpoint entry of the transporter at position i
\* (1-based) of a line list with the point table row, cl
SpanOf(row, cl, i) == { cl[p] : p \in { q \in DOMAIN row : row[q] \div 2 = i - 1 } } \ { None }

\* one edge per transporter of the line list
Edges(ls, row, cl) == { SpanOf(row, cl, i) : i \in DOMAIN ls }

\* the clusters reachable from the set S along the edges E
RECURSIVE Grow(_, _)
Grow(E, S) ==
    LET T == S \cup UNION { e \in E : e \cap S # {} }
    IN  IF T = S THEN S ELSE Grow(E, T)

Linked(E, a, b) == b \in Grow(E, {a})

\* C27 -- joinLineSegs preserves reachability: two clusters that still have
\* entries when it returns are joined by a path of transporters after it if and
\* only if they were joined by a path of transporters before it.
JoinPreservesReachability ==
    pc = "addIndBuffers"
    => \A a, b \in ClusterIds :
          Linked(Edges(lines, ptsRow, clusters), a, b)
          <=> Linked(Edges(hist.lines, hist.row, hist.clusters), a, b)

\* joinLineSegs has fused transporters and two surviving clusters are joined by
\* a path that ran through a cluster which has vanished
C27_Witness ==
    /\ pc = "addIndBuffers"
    /\ joined > 0
    /\ \E a, b \in ClusterIds :
          /\ a # b
          /\ Linked(Edges(lines, ptsRow, clusters), a, b)
          /\ ~ \E i \in DOMAIN hist.lines : {a, b} \subseteq SpanOf(hist.row, hist.clusters, i)

-----------------------------------------------------------------------------
(* reviseOil, called by SHP2XML after reviseAMES                           *)

\* str in str / str in tuple: a name occurs in the name held by an end of a
\* transporter when that name starts with it; an end that still holds a
\* coordinate pair holds no name
NameIn(name, bus) ==
    /\ bus.isName
    /\ bus.name[1] = name[1]
    /\ \E k \in 0..1 : bus.name[2] \div (10 ^ k) = name[2]

\* the coordinates of a buffer are a pair <<x, y>> or a centroid <<sx, sy, n>>
Den(g) == IF Len(g) = 3 THEN g[3] ELSE 1

\* the squared distance of a and b times (Den(a) * Den(b)) squared, in units of
\* 0.01; the coordinates of the explored buffers are multiples of 0.01
Gap2(a, b) ==
    LET dx == (a[1] * Den(b) - b[1] * Den(a)) \div 100
        dy == (a[2] * Den(b) - b[2] * Den(a)) \div 100
    IN  dx * dx + dy * dy

\* distance(a, b) <= eps
NearOil(a, b) ==
    LET r == (eps4 \div 100) * Den(a) * Den(b)
    IN  Gap2(a, b) <= r * r

\* distance(a, b) <= distance(a, c)
NoFarther(a, b, c) == Gap2(a, b) * Den(c) * Den(c) <= Gap2(a, c) * Den(b) * Den(b)

\* list(dict.fromkeys(a + b)) over the controllers of the two ends
JoinControllers(a, b) == Unique(a \o b)

\* body of the loop over the isolated plant at position k (1-based) of ns;
\* a = [new: pipes built so far, count: oilRef_count, still: stillIsoNode]
RescuePlant(ls, ns, oilOtherNodes, a, k) ==
    LET found == SelectSeq([ i \in DOMAIN oilOtherNodes |-> i ],
                           LAMBDA i : NearOil(ns[k].gps, ns[oilOtherNodes[i]].gps))
        \* np.argmin: the first position of found at the least distance
        closest_dist ==
            CHOOSE i \in DOMAIN found :
                /\ \A j \in DOMAIN found :
                       NoFarther(ns[k].gps, ns[oilOtherNodes[found[i]]].gps, ns[oilOtherNodes[found[j]]].gps)
                /\ \A j \in 1..(i - 1) :
                       ~ NoFarther(ns[k].gps, ns[oilOtherNodes[found[j]]].gps, ns[oilOtherNodes[found[i]]].gps)
        closest_node == oilOtherNodes[found[closest_dist]]
        fresh == [ lineName |-> <<"OilR Pipeline",
                                 Cardinality({ i \in DOMAIN ls : ls[i].type = "OilRefPipe" }) + a.count + 1>>,
                   type |-> "oilRPipe", refinement |-> <<POIL>>,
                   fBus |-> [isName |-> TRUE, name |-> ns[closest_node].nodeName],
                   tBus |-> [isName |-> TRUE, name |-> ns[k].nodeName],
                   attrib_origin |-> ns[closest_node].nodeName,
                   attrib_dest |-> ns[k].nodeName,
                   controller |-> JoinControllers(ns[closest_node].controller, ns[k].controller),
                   clust_origin |-> ns[closest_node].cluster,
                   clust_dest |-> ns[k].cluster ]
    IN  \* any(found): some position of found other than position 0
        IF \E i \in Range(found) : i - 1 # 0
        THEN [ a EXCEPT !.new = Append(a.new, fresh), !.count = a.count + 1 ]
        ELSE [ a EXCEPT !.still = Append(a.still, k) ]

reviseOilRes(ls, ns) ==
    LET oilPowerPlantIdxs == Where(ns, LAMBDA k : /\ ns[k].nodeType \in {"GenC", "GenS"}
                                                  /\ POIL \in Range(ns[k].fuelType))
        oilOtherNodes == Where(ns, LAMBDA k : /\ ns[k].nodeType \notin {"GenC", "GenS"}
                                              /\ ns[k].nodeType \in {"OilIndBuffer", "OilPort", "OilTerminal"})
        processedOilLines == Where(ls, LAMBDA k : POIL \in Range(ls[k].refinement))
        isoNodes == SelectSeq(oilPowerPlantIdxs,
                              LAMBDA k : ~ \E i \in Range(processedOilLines) :
                                             NameIn(ns[k].nodeName, ls[i].fBus)
                                             \/ NameIn(ns[k].nodeName, ls[i].tBus))
    IN  Fold(LAMBDA a, k : RescuePlant(ls, ns, oilOtherNodes, a, k),
             [new |-> <<>>, count |-> 0, still |-> <<>>], isoNodes)

reviseOil ==
    /\ pc = "done"
    /\ pc' = "reviseOil done"
    /\ lines' = lines \o reviseOilRes(lines, nodes).new
    /\ UNCHANGED <<nodes, ptsRow, ptsCol, ptsXY, clusters, clustCenters, pts, refinements,
                   resourcesToAdd, k1, joined, clusterPrimary, radial, hist, regions, controllers>>

\* SHP2XML.Shape2XML_HFGT: reviseAMES, then reviseOil
NextRun ==
    \/ Next
    \/ reviseOil

-----------------------------------------------------------------------------
(* Runs of reviseAMES and reviseOil on a transmission line from the first   *)
(* to the second site, a pipeline for a refined product from the third to  *)
(* the fourth, one or two gas- or oil-fired plants at the ends of the      *)
(* transmission line and one or two terminals or refineries at or near     *)
(* the ends of the pipeline                                                *)

RescuePlantRecs ==
    [ kind : { k \in DOMAIN NodeKinds : /\ NodeKinds[k].nodeType = "GenC"
                                        /\ NodeKinds[k].fuelType \in { <<PGAS>>, <<POIL>> } },
      xy : { SiteXY(1), SiteXY(2) }, state : {NoAttr}, iso : {NoAttr} ]

RescueOilRecs ==
    [ kind : { k \in DOMAIN NodeKinds : NodeKinds[k].sys = "oil" },
      xy : { SiteXY(3), <<SiteXY(3)[1] + 100, SiteXY(3)[2]>>, SiteXY(4) },
      state : {NoAttr}, iso : {NoAttr} ]

RescueNodeInputs ==
    { g \o o : g \in UNION { { s \in [ 1..n -> RescuePlantRecs ] :
                                   \A i, j \in 1..n : i < j => s[i].xy # s[j].xy } : n \in 1..2 },
               o \in UNION { { s \in [ 1..n -> RescueOilRecs ] :
                                   \A i, j \in 1..n : i < j => s[i].kind <= s[j].kind /\ s[i].xy # s[j].xy } :
                             n \in 1..2 } }

RescueInputs ==
    { << <<[kind |-> 1, o |-> 1, d |-> 2], [kind |-> 5, o |-> 3, d |-> 4]>>, ns >> :
          ns \in RescueNodeInputs }

InitRescue == \E x \in RescueInputs : Start(x, NoRegions)

SpecRescue == InitRescue /\ [][NextRun]_vars

-----------------------------------------------------------------------------
(* reviseOil: the pipes to the oil-fired plants                            *)

\* the plants reviseOil has to connect: generators burning a refined product
\* that no transporter of refined products names as origin or destination
StrandedPlants ==
    { k \in DOMAIN nodes :
          /\ nodes[k].nodeType \in {"GenC", "GenS"}
          /\ POIL \in Range(nodes[k].fuelType)
          /\ ~ \E i \in DOMAIN lines :
                 /\ POIL \in Range(lines[i].refinement)
                 /\ \/ lines[i].fBus.isName /\ lines[i].fBus.name = nodes[k].nodeName
                    \/ lines[i].tBus.isName /\ lines[i].tBus.name = nodes[k].nodeName }

\* the terminals, ports and independent oil buffers within 4 * eps3 of plant k
OilNeighbours(k) ==
    { j \in DOMAIN nodes :
          /\ nodes[j].nodeType \in {"OilTerminal", "OilPort", "OilIndBuffer"}
          /\ NearOil(nodes[k].gps, nodes[j].gps) }

NearestOilNeighbours(k) ==
    { j \in OilNeighbours(k) :
          \A h \in OilNeighbours(k) : NoFarther(nodes[k].gps, nodes[j].gps, nodes[h].gps) }

\* the positions of the pipes the step appends that end at plant k
PipesTo(k) ==
    { i \in (Len(lines) + 1)..Len(lines') :
          lines'[i].tBus.isName /\ lines'[i].tBus.name = nodes[k].nodeName }

\* C28 -- reviseOil emits exactly one OilRefPipe carrying processed oil, from the
\* nearest oil terminal, oil port or independent oil buffer within 4 * eps3, to
\* every generator that burns processed oil and is named by no processed-oil
\* transporter; a generator with no such neighbour in range gets no pipe, and
\* nothing else is emitted.
RescueEveryStrandedPlant ==
    [][ pc = "done" /\ pc' = "reviseOil done"
        => /\ SubSeq(lines', 1, Len(lines)) = lines
           /\ \A i \in (Len(lines) + 1)..Len(lines') :
                  /\ lines'[i].refinement = <<POIL>>
                  /\ lines'[i].type = "oilRPipe"
                  /\ \E k \in StrandedPlants : i \in PipesTo(k)
           /\ \A k \in StrandedPlants :
                  IF OilNeighbours(k) = {}
                  THEN PipesTo(k) = {}
                  ELSE /\ Cardinality(PipesTo(k)) = 1
                       /\ \A i \in PipesTo(k) :
                              /\ lines'[i].fBus.isName
                              /\ \E j \in NearestOilNeighbours(k) :
                                     lines'[i].fBus.name = nodes[j].nodeName ]_vars

\* reviseOil has run and a pipe for refined products leads from a terminal to a
\* plant
C28_Witness ==
    /\ pc = "reviseOil done"
    /\ \E i \in DOMAIN lines :
          /\ lines[i].type = "oilRPipe"
          /\ lines[i].fBus.isName /\ lines[i].fBus.name[1] = "OilTerminal"
          /\ lines[i].tBus.isName /\ lines[i].tBus.name[1] = "GenC"

-----------------------------------------------------------------------------
(* Termination of the sweep of joinLineSegs                                *)

\* the guard of joinLineSegsStep; a step it allows always changes k1 or lines
SweepEnabled == pc = "joinLineSegsLoop" /\ k1 < Len(lines)

\* WF_vars(joinLineSegsStep), with the guard of the step for its enabling condition
SweepFair == []<>(~ SweepEnabled) \/ []<><<joinLineSegsStep>>_vars

\* reviseAMES is one sequential procedure: an iteration of the sweep that can be
\* taken is taken, and so is the return from the sweep
SpecLive == Init /\ [][Next]_vars /\ SweepFair /\ WF_vars(joinLineSegsReturn)

\* an iteration removes one transporter and stays, or removes none and advances
SweepProgress ==
    [][ pc = "joinLineSegsLoop" /\ k1 < Len(lines)
        => \/ Len(lines') = Len(lines) - 1 /\ k1' = k1
           \/ Len(lines') = Len(lines) /\ k1' = k1 + 1 ]_vars

\* C29 -- joinLineSegs terminates on every input: each iteration of its sweep
\* either removes one transporter from the line list or advances the sweep
\* index by one, so the sweep, once entered, returns with the index at the
\* length of the line list.
JoinTerminates ==
    /\ SweepProgress
    /\ (pc = "joinLineSegsLoop") ~> (pc = "addIndBuffers" /\ k1 = Len(lines))

\* the sweep has both removed a transporter and advanced past another and has
\* transporters left to examine
C29_Witness ==
    /\ pc = "joinLineSegsLoop"
    /\ joined > 0
    /\ k1 > 0
    /\ k1 < Len(lines)

\* the transporters of the output that name a buffer at both ends
NamedBothEnds == { i \in DOMAIN lines : lines[i].fBus.isName /\ lines[i].tBus.isName }

\* C30 -- after setPipeODNames2 no transporter of the output connects a buffer
\* to itself: whether ingested, synthetic or connector, the buffer it names as
\* origin is another buffer than the one it names as destination.
NoTransporterToItself ==
    pc = "done" => \A i \in NamedBothEnds : lines[i].fBus.name # lines[i].tBus.name

\* the naming has run and named both ends of a connector and of a transporter
\* that is no connector
C30_Witness ==
    /\ pc = "done"
    /\ \E i \in NamedBothEnds : i \in Connectors
    /\ \E i \in NamedBothEnds : i \notin Connectors

====
